---------------------------- MODULE Spec2Model ----------------------------
(***************************************************************************)
(* Scan-and-catalog pipeline of the AEC directory scanner:                 *)
(*   - the thread-pool and asyncio directory scanners (core/file_scanner,  *)
(*     core/async_file_scanner),                                           *)
(*   - the catalog (database/database_manager): files, file_metadata,      *)
(*     aec_file_metadata, scan_history,                                    *)
(*   - the orchestrator (main.AECDirectoryScanner): scan_project,          *)
(*     scan_project_async, extract_all_metadata, _detect_removed_files.    *)
(*                                                                         *)
(* A file name is a sequence of one-character strings, a path is the       *)
(* sequence of the names below the filesystem root "/".                    *)
(***************************************************************************)
EXTENDS Integers, Sequences, FiniteSets, TLC

VARIABLES
    fs,                 \* filesystem: file path -> [size, ctime, mtime, atime]
    clock,              \* wall clock (datetime.now / stat timestamps)
    hash_files,         \* scanning.generate_hashes
    files,              \* table files
    next_file_id,       \* AUTOINCREMENT sequence of files.id
    file_metadata,      \* table file_metadata
    next_metadata_id,   \* AUTOINCREMENT sequence of file_metadata.id
    aec_file_metadata,  \* table aec_file_metadata
    next_aec_id,        \* AUTOINCREMENT sequence of aec_file_metadata.id
    scan_history,       \* table scan_history, in insertion order
    attempts,           \* number of scan_project / scan_project_async calls made
    calls,              \* number of insert_file_record / extract_all_metadata calls made
    fsOps,              \* number of filesystem changes made
    lastResult,         \* what the last operation did and returned
    workers,            \* insert_file_record calls in progress, one per thread
    scanOut,            \* output of the two scanners run on the same tree
    connPool            \* ConnectionPool and the threads inside get_connection

vars == <<fs, clock, hash_files, files, next_file_id, file_metadata,
          next_metadata_id, aec_file_metadata, next_aec_id, scan_history,
          attempts, calls, fsOps, lastResult, workers, scanOut, connPool>>

catalogVars == <<files, next_file_id, file_metadata, next_metadata_id,
                 aec_file_metadata, next_aec_id, scan_history>>

-----------------------------------------------------------------------------
(* Bounds of the model *)

MaxScans == 2          \* scan_project / scan_project_async calls in one behaviour
MaxFsOps == 1          \* filesystem changes in one behaviour of Spec, of SpecMeta
MaxSize == 2           \* file sizes are 1..MaxSize
MaxExtractions == 2    \* extract_all_metadata calls in one behaviour
MaxUpserts == 3        \* insert_file_record calls in one behaviour
MaxCatalogFsOps == 1   \* filesystem changes in one behaviour of SpecCatalog
NumClients == 2        \* threads that call insert_file_record concurrently
MaxTime == 2           \* stat timestamps of SpecIncremental are 0..MaxTime
MaxReconciles == 2     \* reconciliation passes in one behaviour of SpecReconcile
MaxReconcileFsOps == 1 \* filesystem changes in one behaviour of SpecReconcile
MaxReactivateFsOps == 2 \* filesystem changes in one behaviour of SpecReactivate
MaxConcurrentScans == 2 \* scan_project calls in one behaviour of SpecConcurrent
MaxStopScans == 2      \* scan_project calls in one behaviour of SpecStop
MaxStopFsOps == 1      \* filesystem changes in one behaviour of SpecStop
MaxStops == 1          \* stop_scanning calls in one behaviour of SpecStop
MaxOperations == 2     \* orchestrator and catalog operations in one behaviour of SpecCheckout
MaxLoopFiles == 1      \* scan results in the loop of a scan of SpecCheckout
MaxPoolConnections == 1 \* max_connections of the ConnectionPool of SpecCheckout
MaxCheckouts == 3      \* get_connection calls in one behaviour of SpecPool
max_connections == 2   \* max_connections of the ConnectionPool of SpecPool

-----------------------------------------------------------------------------
(* Characters, names, str.lower(), pathlib suffix *)

UPPER == <<"A","B","C","D","E","F","G","H","I","J","K","L","M",
           "N","O","P","Q","R","S","T","U","V","W","X","Y","Z">>
LOWER == <<"a","b","c","d","e","f","g","h","i","j","k","l","m",
           "n","o","p","q","r","s","t","u","v","w","x","y","z">>

\* ASCII order of the characters that occur in paths
CharOrder ==
    <<" ", "-", ".", "/", "0","1","2","3","4","5","6","7","8","9">>
    \o UPPER \o <<"_">> \o LOWER

CodeMap == [c \in { CharOrder[i] : i \in 1..Len(CharOrder) } |->
               CHOOSE i \in 1..Len(CharOrder) : CharOrder[i] = c]

Code(c) == CodeMap[c]

\* upper-case letter -> lower-case letter
LowerMap == [c \in { UPPER[i] : i \in 1..Len(UPPER) } |->
                LOWER[CHOOSE i \in 1..Len(UPPER) : UPPER[i] = c]]

LowerChar(c) == IF c \in DOMAIN LowerMap THEN LowerMap[c] ELSE c

\* str.lower()
LowerStr(s) == [i \in 1..Len(s) |-> LowerChar(s[i])]

\* str.rfind('.') as a 1-based index, 0 when there is no dot
RFindDot(s) ==
    IF \E i \in 1..Len(s) : s[i] = "."
    THEN CHOOSE i \in 1..Len(s) : s[i] = "." /\ \A j \in (i+1)..Len(s) : s[j] # "."
    ELSE 0

\* PurePath.suffix: the last dot-part, empty for a leading or a trailing dot
Suffix(name) ==
    LET i == RFindDot(name)
    IN  IF i >= 2 /\ i < Len(name) THEN SubSeq(name, i, Len(name)) ELSE <<>>

\* str.startswith('.')
StartsWithDot(name) == Len(name) > 0 /\ name[1] = "."

N_p == <<"p">>
N_q == <<"q">>
N_d == <<"d">>
N_e == <<"e">>
N_f == <<"f">>
N_git == <<".","g","i","t">>
N_Temp == <<"T","e","m","p">>
N_a_txt == <<"a",".","t","x","t">>
N_b_txt == <<"b",".","t","x","t">>
N_c_txt == <<"c",".","t","x","t">>
N_g_txt == <<"g",".","t","x","t">>
N_h_txt == <<"h",".","t","x","t">>
N_t_txt == <<"t",".","t","x","t">>
N_x_TMP == <<"x",".","T","M","P">>
N_hidden == <<".","h","i","d","d","e","n">>
N_config == <<"c","o","n","f","i","g">>
N_dwg_pdf ==
    <<"C","D","_","A","_","D","W","G","_","0","0","1","_","R","0","_",
      "0","1","0","1","2","4",".","p","d","f">>

\* '.aec_project_metadata.json'
RESERVED_NAME == <<".","a","e","c","_","p","r","o","j","e","c","t","_",
                   "m","e","t","a","d","a","t","a",".","j","s","o","n">>

\* FileSystemScanner.__init__ defaults, the same as config_manager's
excluded_extensions ==
    { <<".","t","m","p">>, <<".","l","o","g">>, <<".","b","a","k">>, <<".","s","w","p">> }
excluded_directories ==
    { <<"t","e","m","p">>, <<".","g","i","t">>,
      <<"_","_","p","y","c","a","c","h","e","_","_">>,
      <<"n","o","d","e","_","m","o","d","u","l","e","s">> }

-----------------------------------------------------------------------------
(* Paths *)

\* the files the catalog specifications create, change and delete
F_a == <<N_p, N_a_txt>>
F_b == <<N_p, N_b_txt>>
F_c == <<N_p, N_d, N_e, N_c_txt>>
F_g == <<N_p, N_d, N_e, N_f, N_g_txt>>
F_dwg == <<N_p, N_dwg_pdf>>
F_git_config == <<N_p, N_git, N_config>>
PipelineFiles == {F_a, F_b, F_c, F_g}

\* the files a tree handed to the scanners may hold
ScanUniverse ==
    PipelineFiles \cup
    { <<N_p, N_d, N_h_txt>>,
      <<N_p, N_hidden>>,
      <<N_p, RESERVED_NAME>>,
      <<N_p, N_d, N_e, N_x_TMP>>,
      <<N_p, N_git, N_config>>,
      <<N_p, N_d, N_Temp, N_t_txt>> }

Prefixes(p) == { SubSeq(p, 1, k) : k \in 0..(Len(p) - 1) }

\* the directories that are on disk whatever files there are: every directory
\* of the universe; /q is not one of them
AllDirs == UNION { Prefixes(p) : p \in ScanUniverse }

Parent(p) == SubSeq(p, 1, Len(p) - 1)
Name(p) == p[Len(p)]

\* os.path.exists: a file, a directory of the universe, or a directory that
\* holds a file
PathExists(fsys, p) ==
    \/ p \in DOMAIN fsys
    \/ p \in AllDirs
    \/ \E f \in DOMAIN fsys : p \in Prefixes(f)

\* str(path): "/" + "/".join(names), as a sequence of characters
RECURSIVE PathStr(_)
PathStr(p) ==
    IF Len(p) = 0 THEN <<>>
    ELSE <<"/">> \o p[1] \o PathStr(Tail(p))

\* byte-wise string comparison (ORDER BY file_path, BINARY collation)
RECURSIVE LexLess(_, _)
LexLess(s, t) ==
    IF Len(t) = 0 THEN FALSE
    ELSE IF Len(s) = 0 THEN TRUE
    ELSE IF Code(s[1]) < Code(t[1]) THEN TRUE
    ELSE IF Code(s[1]) > Code(t[1]) THEN FALSE
    ELSE LexLess(Tail(s), Tail(t))

PathLess(p, q) == LexLess(PathStr(p), PathStr(q))

-----------------------------------------------------------------------------
(* Directory scanners *)

NoHash == 0

\* hashlib.sha256 of the content; a file's content is identified by its size
CalculateFileHash(size) == 100 + size

\* Path.iterdir(), the entries for which is_file() holds
FilesIn(fsys, directory) == { p \in DOMAIN fsys : Parent(p) = directory }

\* Path.iterdir(), the entries for which is_dir() holds
SubDirs(directory) == { d \in AllDirs : Len(d) > 0 /\ Parent(d) = directory }

ShouldExcludeFile(p) ==
    \/ LowerStr(Suffix(Name(p))) \in excluded_extensions
    \/ (StartsWithDot(Name(p)) /\ Name(p) # RESERVED_NAME)

ShouldExcludeDirectoryCaseSensitive(dir_name) ==
    dir_name \in excluded_directories

\* {d.lower() for d in self.excluded_directories}
ExcludedDirectoriesLower == { LowerStr(d) : d \in excluded_directories }

ShouldExcludeDirectory(dir_name) ==
    LowerStr(dir_name) \in ExcludedDirectoriesLower

\* FileInfo of one file
FileInfo(fsys, p, hf) ==
    [ file_path     |-> p,
      file_name     |-> Name(p),
      file_extension |-> LowerStr(Suffix(Name(p))),
      file_size     |-> fsys[p].size,
      created_time  |-> fsys[p].ctime,
      modified_time |-> fsys[p].mtime,
      accessed_time |-> fsys[p].atime,
      parent_directory |-> Parent(p),
      file_hash     |-> IF hf THEN CalculateFileHash(fsys[p].size) ELSE NoHash ]

\* _process_file / _process_file_async: no FileInfo for an excluded file
ProcessFile(fsys, p, hf) ==
    IF ShouldExcludeFile(p) THEN {} ELSE { FileInfo(fsys, p, hf) }

\* FileSystemScanner._scan_recursive: the files of the directory go to the
\* thread pool, the subdirectories that are not excluded are walked in turn
RECURSIVE ScanRecursive(_, _, _)
ScanRecursive(fsys, directory, hf) ==
    UNION { ProcessFile(fsys, p, hf) : p \in FilesIn(fsys, directory) }
    \cup
    UNION { ScanRecursive(fsys, d, hf) :
              d \in { s \in SubDirs(directory) : ~ShouldExcludeDirectory(Name(s)) } }

\* FileSystemScanner.scan_directory(root_path, recursive=True)
ScanDirectory(fsys, root_path, hf) ==
    IF ~PathExists(fsys, root_path) THEN {} ELSE ScanRecursive(fsys, root_path, hf)

\* AsyncFileSystemScanner._scan_recursive_async: batch_size is
\* min(max_concurrent, len(file_tasks)); with no file in the directory
\* range(0, 0, 0) raises ValueError, which the generator's own handler logs,
\* and the generator ends before it reaches the subdirectories
RECURSIVE ScanRecursiveAsync(_, _, _)
ScanRecursiveAsync(fsys, directory, hf) ==
    IF FilesIn(fsys, directory) = {} THEN {}
    ELSE UNION { ProcessFile(fsys, p, hf) : p \in FilesIn(fsys, directory) }
         \cup
         UNION { ScanRecursiveAsync(fsys, d, hf) :
                   d \in { s \in SubDirs(directory) : ~ShouldExcludeDirectory(Name(s)) } }

\* AsyncFileSystemScanner.scan_directory_async(root_path, recursive=True)
ScanDirectoryAsync(fsys, root_path, hf) ==
    IF ~PathExists(fsys, root_path) THEN {} ELSE ScanRecursiveAsync(fsys, root_path, hf)

Paths(infos) == { i.file_path : i \in infos }

-----------------------------------------------------------------------------
(* Initial values shared by the specifications *)

NoResult == [op |-> "none"]

\* a file as the filesystem holds it at time 0
FreshFile == [size |-> 1, ctime |-> 0, mtime |-> 0, atime |-> 0]

EmptyCatalog ==
    /\ files = {}
    /\ next_file_id = 1
    /\ file_metadata = {}
    /\ next_metadata_id = 1
    /\ aec_file_metadata = {}
    /\ next_aec_id = 1
    /\ scan_history = <<>>

NoCalls == [upserts |-> 0, extractions |-> 0]

\* the pool of a specification that does not look inside get_connection
NoPool == [queue |-> <<>>]

NoScannerRun == [ran |-> {}, root |-> <<>>, thread |-> {}, async |-> {}]

-----------------------------------------------------------------------------
(* Catalog: DatabaseManager *)

\* table projects: project 1 lives at /p, project 2 at /q, which is gone
\* unless a file is under it
Projects == (1 :> [base_path |-> <<N_p>>]) @@ (2 :> [base_path |-> <<N_q>>])

UnknownProjectId == 3

\* datetime.min, the cutoff of an incremental scan with no completed session
DatetimeMin == -1

\* SELECT ... FROM files WHERE file_path = ?
\* a lookup that sees the active rows only
GetFileByPathActiveOnly(rows, file_path) ==
    { r \in rows : r.file_path = file_path /\ r.is_active }

\* SELECT ... FROM files WHERE file_path = ?
GetFileByPath(rows, file_path) == { r \in rows : r.file_path = file_path }

\* SELECT ... FROM files WHERE project_id = ? AND is_active = true
GetFilesByProject(rows, project_id) ==
    { r \in rows : r.project_id = project_id /\ r.is_active }

\* ORDER BY file_path LIMIT 1
FirstByPath(rows) ==
    CHOOSE r \in rows : \A o \in rows \ {r} : PathLess(r.file_path, o.file_path)

\* the file_data dictionary scan_project builds from a FileInfo
FileData(project_id, fi) ==
    [ project_id     |-> project_id,
      file_name      |-> fi.file_name,
      file_path      |-> fi.file_path,
      file_extension |-> fi.file_extension,
      file_size      |-> fi.file_size,
      file_hash      |-> fi.file_hash,
      created_at     |-> fi.created_time,
      modified_at    |-> fi.modified_time,
      last_accessed  |-> fi.accessed_time ]

\* an INSERT whose scan_count starts at the row id
NewFileRowCountingFromId(id, fd) ==
    [ id             |-> id,
      project_id     |-> fd.project_id,
      file_name      |-> fd.file_name,
      file_path      |-> fd.file_path,
      file_extension |-> fd.file_extension,
      file_size      |-> fd.file_size,
      file_hash      |-> fd.file_hash,
      created_at     |-> fd.created_at,
      modified_at    |-> fd.modified_at,
      last_accessed  |-> fd.last_accessed,
      scan_count     |-> id,
      is_active      |-> TRUE ]

\* INSERT INTO files (...): scan_count DEFAULT 1, is_active DEFAULT true
NewFileRow(id, fd) ==
    [ id             |-> id,
      project_id     |-> fd.project_id,
      file_name      |-> fd.file_name,
      file_path      |-> fd.file_path,
      file_extension |-> fd.file_extension,
      file_size      |-> fd.file_size,
      file_hash      |-> fd.file_hash,
      created_at     |-> fd.created_at,
      modified_at    |-> fd.modified_at,
      last_accessed  |-> fd.last_accessed,
      scan_count     |-> 1,
      is_active      |-> TRUE ]

UpdateFileRowKeepingScanCount(r, fd) ==
    [ r EXCEPT !.file_name = fd.file_name,
               !.file_extension = fd.file_extension,
               !.file_size = fd.file_size,
               !.file_hash = fd.file_hash,
               !.modified_at = fd.modified_at,
               !.last_accessed = fd.last_accessed,
               !.is_active = TRUE ]

\* UPDATE files SET file_name, file_extension, file_size, file_hash,
\*   modified_at, last_accessed, scan_count = scan_count + 1, is_active = true
UpdateFileRow(r, fd) ==
    [ r EXCEPT !.file_name = fd.file_name,
               !.file_extension = fd.file_extension,
               !.file_size = fd.file_size,
               !.file_hash = fd.file_hash,
               !.modified_at = fd.modified_at,
               !.last_accessed = fd.last_accessed,
               !.scan_count = @ + 1,
               !.is_active = TRUE ]

\* insert_file_record, first statement: SELECT id FROM files WHERE file_path = ?
SelectFileId(rows, file_path) == { r.id : r \in GetFileByPath(rows, file_path) }

WriteFileRecordNoUnique(db, existing, fd) ==
    IF existing # {}
    THEN LET id == CHOOSE i \in existing : TRUE
         IN  [ files |-> { IF r.id = id THEN UpdateFileRow(r, fd) ELSE r : r \in db.files },
               next_file_id |-> db.next_file_id,
               file_id |-> id ]
    ELSE [ files |-> db.files \cup { NewFileRow(db.next_file_id, fd) },
           next_file_id |-> db.next_file_id + 1,
           file_id |-> db.next_file_id ]

\* insert_file_record, second statement: the UPDATE of the row found, or the
\* INSERT; file_path is UNIQUE, so an INSERT of a path that is there by now
\* raises, the transaction is rolled back and None (0) is returned
WriteFileRecord(db, existing, fd) ==
    IF existing # {}
    THEN LET id == CHOOSE i \in existing : TRUE
         IN  [ files |-> { IF r.id = id THEN UpdateFileRow(r, fd) ELSE r : r \in db.files },
               next_file_id |-> db.next_file_id,
               file_id |-> id ]
    ELSE IF GetFileByPath(db.files, fd.file_path) # {}
    THEN [ files |-> db.files, next_file_id |-> db.next_file_id, file_id |-> 0 ]
    ELSE [ files |-> db.files \cup { NewFileRow(db.next_file_id, fd) },
           next_file_id |-> db.next_file_id + 1,
           file_id |-> db.next_file_id ]

\* DatabaseManager.insert_file_record, run without another writer in between
InsertFileRecord(db, fd) ==
    WriteFileRecord(db, SelectFileId(db.files, fd.file_path), fd)

\* SELECT MAX(end_time) FROM scan_history
\*   WHERE project_id = ? AND scan_status = 'completed'
LastScanTime(history, project_id) ==
    LET ends == { history[i].end_time : i \in
                    { j \in 1..Len(history) : /\ history[j].project_id = project_id
                                              /\ history[j].scan_status = "completed" } }
    IN  IF ends = {} THEN DatetimeMin
        ELSE CHOOSE t \in ends : \A u \in ends : u <= t

-----------------------------------------------------------------------------
(* Regular expressions, as re.search evaluates the patterns of the parser *)

DIGITS == {"0","1","2","3","4","5","6","7","8","9"}
UpperSet == { UPPER[i] : i \in 1..Len(UPPER) }
LowerSet == { LOWER[i] : i \in 1..Len(LOWER) }

\* lower-case letter -> upper-case letter
UpperMap == [c \in LowerSet |-> UPPER[CHOOSE i \in 1..Len(LOWER) : LOWER[i] = c]]

UpperChar(c) == IF c \in DOMAIN UpperMap THEN UpperMap[c] ELSE c

\* str.upper()
UpperStr(s) == [i \in 1..Len(s) |-> UpperChar(s[i])]

\* None
None == <<>>

\* [set]{min,max}, greedy; max = -1 stands for no upper limit
Cls(set, min, max) == [k |-> "set", set |-> set, min |-> min, max |-> max]

\* a literal string
Lit(str) == [i \in 1..Len(str) |-> Cls({str[i]}, 1, 1)]

\* (a|b|...), the alternatives tried in order
Alt(alts) == [k |-> "alt", alts |-> alts]

\* the boundary of a capturing group
Mark == [k |-> "mark"]

\* a capturing group around a sequence of atoms
Grp(atoms) == <<Mark>> \o atoms \o <<Mark>>

NoMatch == [ok |-> FALSE, end |-> 0, marks |-> <<>>]

\* one character against a class, with re.IGNORECASE or without
CharIn(c, set, ignorecase) ==
    c \in set \/ (ignorecase /\ (LowerChar(c) \in set \/ UpperChar(c) \in set))

\* how many characters from position i on are in the class, at most max
RECURSIVE RunLength(_, _, _, _, _)
RunLength(set, s, i, max, ignorecase) ==
    IF max = 0 \/ i > Len(s) THEN 0
    ELSE IF ~CharIn(s[i], set, ignorecase) THEN 0
    ELSE 1 + RunLength(set, s, i + 1, max - 1, ignorecase)

\* the match of the atoms at position i that a backtracking matcher finds
\* first: the longest repetition and the earliest alternative with which the
\* rest of the pattern matches; end is the position after the match
RECURSIVE Match(_, _, _, _)
RECURSIVE MatchRepetition(_, _, _, _, _, _)
RECURSIVE MatchAlternative(_, _, _, _, _, _)

Match(atoms, s, i, ignorecase) ==
    IF Len(atoms) = 0 THEN [ok |-> TRUE, end |-> i, marks |-> <<>>]
    ELSE LET a == Head(atoms)
             rest == Tail(atoms)
         IN  CASE a.k = "mark" ->
                    LET r == Match(rest, s, i, ignorecase)
                    IN  IF r.ok THEN [r EXCEPT !.marks = <<i>> \o @] ELSE NoMatch
               [] a.k = "alt" -> MatchAlternative(a.alts, 1, rest, s, i, ignorecase)
               [] a.k = "set" ->
                    MatchRepetition(RunLength(a.set, s, i, a.max, ignorecase), a.min,
                                    rest, s, i, ignorecase)

\* n repetitions, then n - 1, ... down to min, until the rest matches
MatchRepetition(n, min, rest, s, i, ignorecase) ==
    IF n < min THEN NoMatch
    ELSE LET r == Match(rest, s, i + n, ignorecase)
         IN  IF r.ok THEN r ELSE MatchRepetition(n - 1, min, rest, s, i, ignorecase)

\* alternative j, then j + 1, ... until the alternative and the rest match
MatchAlternative(alts, j, rest, s, i, ignorecase) ==
    IF j > Len(alts) THEN NoMatch
    ELSE LET r == Match(alts[j] \o rest, s, i, ignorecase)
         IN  IF r.ok THEN r ELSE MatchAlternative(alts, j + 1, rest, s, i, ignorecase)

\* the match at position i or at the first later position that has one
RECURSIVE SearchFrom(_, _, _, _)
SearchFrom(atoms, s, i, ignorecase) ==
    IF i > Len(s) + 1 THEN [ok |-> FALSE, start |-> 0, end |-> 0, marks |-> <<>>]
    ELSE LET m == Match(atoms, s, i, ignorecase)
         IN  IF m.ok THEN [ok |-> TRUE, start |-> i, end |-> m.end, marks |-> m.marks]
             ELSE SearchFrom(atoms, s, i + 1, ignorecase)

\* re.search(pattern, s, flags): the match at the leftmost position that has one
Search(atoms, s, ignorecase) == SearchFrom(atoms, s, 1, ignorecase)

\* match.group(0) and match.group(n)
Group0(s, m) == SubSeq(s, m.start, m.end - 1)
Group(s, m, n) == SubSeq(s, m.marks[2 * n - 1], m.marks[2 * n] - 1)

-----------------------------------------------------------------------------
(* Naming-convention parser: MetadataExtractor.extract_aec_metadata *)

\* the revision group of primary_format and of shop_drawing_format: [CR]\d{1,2}
CheckOrCleanToken == <<Cls({"C","R"}, 1, 1), Cls(DIGITS, 1, 2)>>

\* self.aec_patterns, the patterns extract_aec_metadata reads
aec_patterns ==
    [ primary_format |->
          Grp(<<Cls(UpperSet, 2, 2)>>) \o Lit(<<"_">>)
          \o Grp(<<Alt(<< <<Cls(UpperSet, 1, 2)>>, Lit(<<"E","N">>), Lit(<<"S","U">>), Lit(<<"P","M">>), Lit(<<"G","E">>) >>)>>) \o Lit(<<"_">>)
          \o Grp(<<Cls(UpperSet \cup DIGITS, 2, 6)>>) \o Lit(<<"_">>)
          \o Grp(<<Cls(UpperSet \cup DIGITS, 1, 8)>>) \o Lit(<<"_">>)
          \o Grp(<<Alt(<< CheckOrCleanToken, <<Cls(UpperSet, 2, 6)>> >>)>>) \o Lit(<<"_">>)
          \o Grp(<<Cls(DIGITS, 6, 6)>>) \o Lit(<<".">>)
          \o Grp(<<Cls(LowerSet \cup DIGITS, 2, 4)>>),
      project_number |-> <<Cls(UpperSet \cup DIGITS, 3, 8)>>,
      date_format |-> <<Cls(DIGITS, 6, 6)>>,
      sheet_number |-> <<Cls(UpperSet \cup DIGITS, 1, 4)>>,
      revision |-> <<Cls({"R"}, 1, 1), Cls(DIGITS, 1, 2)>>,
      check_print |-> <<Cls({"C"}, 1, 1), Cls(DIGITS, 1, 2)>>,
      issue_code |-> <<Alt(<< Lit(<<"I","F","C">>), Lit(<<"I","F","B">>), Lit(<<"I","F","P">>),
                              Lit(<<"A","B">>), Lit(<<"R","F","I">>), Lit(<<"P","C","O">>),
                              Lit(<<"F","O","R">>), Lit(<<"C","O","N","S","T">>),
                              Lit(<<"R","E","C","O","R","D">>) >>)>>,
      discipline_code |-> <<Alt(<< Lit(<<"A">>), Lit(<<"S">>), Lit(<<"G">>), Lit(<<"C">>), Lit(<<"M">>),
                                   Lit(<<"E">>), Lit(<<"P">>), Lit(<<"H">>), Lit(<<"F">>), Lit(<<"L">>),
                                   Lit(<<"I">>), Lit(<<"T">>), Lit(<<"E","N">>), Lit(<<"S","U">>),
                                   Lit(<<"P","M">>), Lit(<<"G","E">>) >>)>>,
      phase_code |-> <<Alt(<< Lit(<<"P","D">>), Lit(<<"S","D">>), Lit(<<"D","D">>), Lit(<<"C","D">>),
                              Lit(<<"C","A">>), Lit(<<"C","O">>) >>)>>,
      document_type |-> <<Alt(<< Lit(<<"D","W","G">>), Lit(<<"P","L","N">>), Lit(<<"S","E","C">>),
                                 Lit(<<"D","T","L">>), Lit(<<"S","C","H">>), Lit(<<"C","A","L","C">>),
                                 Lit(<<"L","O","A","D">>), Lit(<<"S","I","Z","E">>),
                                 Lit(<<"P","A","R">>), Lit(<<"R","P","T">>), Lit(<<"M","E","M","O">>),
                                 Lit(<<"S","T","U","D","Y">>), Lit(<<"E","V","A","L">>),
                                 Lit(<<"S","P","E","C">>), Lit(<<"D","I","V">>), Lit(<<"R","F","I">>),
                                 Lit(<<"S","U","B">>), Lit(<<"C","O">>), Lit(<<"T","X","M">>),
                                 Lit(<<"L","T","R">>), Lit(<<"B","I","M">>), Lit(<<"3","D">>),
                                 Lit(<<"C","A","D">>), Lit(<<"P","H","O">>), Lit(<<"I","M","G">>),
                                 Lit(<<"P","E","R">>), Lit(<<"A","P","P">>), Lit(<<"M","T","G">>),
                                 Lit(<<"S","H","O","P">>), Lit(<<"A","B">>) >>)>>,
      csi_division |->
          <<Alt(<< <<Cls({"0"}, 1, 1), Cls(DIGITS, 1, 1)>>,
                   <<Cls({"1"}, 1, 1), Cls({"0","1","2","3","4","5","6"}, 1, 1)>>,
                   <<Cls({"2"}, 1, 1), Cls(DIGITS, 1, 1)>>,
                   <<Cls({"3"}, 1, 1), Cls(DIGITS, 1, 1)>>,
                   <<Cls({"4"}, 1, 1), Cls(DIGITS, 1, 1)>> >>)>>,
      csi_section |-> <<Cls(DIGITS, 2, 2), Cls({" "}, 0, 1), Cls(DIGITS, 2, 2),
                        Cls({" "}, 0, 1), Cls(DIGITS, 2, 2)>>,
      meeting_format |->
          Lit(<<"M","T","G","_">>) \o Grp(<<Cls(DIGITS, 6, 6)>>) \o Lit(<<"_">>)
          \o Grp(<<Cls(UpperSet \cup LowerSet, 1, -1)>>) \o Lit(<<".">>)
          \o Grp(<<Cls(LowerSet, 3, 4)>>),
      transmittal_format |->
          Lit(<<"T","X","M","_">>) \o Grp(<<Cls(UpperSet, 2, 4)>>) \o Lit(<<"_">>)
          \o Grp(<<Cls(DIGITS, 3, 3)>>) \o Lit(<<"_">>)
          \o Grp(<<Cls(DIGITS, 6, 6)>>) \o Lit(<<".">>)
          \o Grp(<<Cls(LowerSet, 3, 3)>>),
      shop_drawing_format |->
          Lit(<<"S","H","O","P","_">>) \o Grp(<<Cls(UpperSet, 1, 2)>>) \o Lit(<<"_">>)
          \o Grp(<<Cls(UpperSet, 1, -1)>>) \o Lit(<<"_">>)
          \o Grp(<<Cls(UpperSet, 1, -1)>>) \o Lit(<<"_">>)
          \o Grp(CheckOrCleanToken) \o Lit(<<"_">>)
          \o Grp(<<Cls(DIGITS, 6, 6)>>) \o Lit(<<".">>)
          \o Grp(<<Cls(LowerSet, 3, 3)>>),
      as_built_format |->
          Lit(<<"A","B","_">>) \o Grp(<<Cls(UpperSet, 1, 2)>>) \o Lit(<<"_">>)
          \o Grp(<<Cls(UpperSet \cup DIGITS, 1, 4)>>) \o Lit(<<"_">>)
          \o Grp(<<Cls(DIGITS, 6, 6)>>) \o Lit(<<".">>)
          \o Grp(<<Cls(LowerSet, 3, 3)>>),
      submittal_number |-> Lit(<<"S","U","B","-">>) \o <<Cls(DIGITS, 3, 3)>>,
      rfi_number |-> Lit(<<"R","F","I","-">>) \o <<Cls(DIGITS, 3, 3)>>,
      change_order |-> Lit(<<"C","O","-">>) \o <<Cls(DIGITS, 3, 3)>>,
      sku_number |-> Lit(<<"S","K","U","-">>) \o <<Cls(DIGITS, 3, 3)>> ]

\* special_patterns, in the order of the loop
special_patterns == <<"submittal_number", "rfi_number", "change_order", "sku_number">>

\* keyword_patterns, in the order of the loop
keyword_patterns ==
    << <<"p","l","a","n">>, <<"e","l","e","v","a","t","i","o","n">>,
       <<"s","e","c","t","i","o","n">>, <<"d","e","t","a","i","l">>,
       <<"s","c","h","e","d","u","l","e">>, <<"s","p","e","c">>,
       <<"d","r","a","w","i","n","g">>, <<"s","h","e","e","t">>,
       <<"l","a","y","o","u","t">>, <<"d","i","a","g","r","a","m">>,
       <<"c","a","l","c">>, <<"r","e","p","o","r","t">>, <<"m","e","m","o">>,
       <<"s","t","u","d","y">>, <<"e","v","a","l","u","a","t","i","o","n">>,
       <<"p","e","r","m","i","t">>, <<"p","h","o","t","o">> >>

\* PurePath.stem: the name without its suffix
Stem(name) == SubSeq(name, 1, Len(name) - Len(Suffix(name)))

\* the dictionary extract_aec_metadata starts from (the *_name entries, looked
\* up from the codes, and drawing_number, never set, are left out)
EmptyAecMetadata ==
    [ is_aec_standard |-> FALSE, naming_format |-> "None",
      project_number |-> None, phase_code |-> None, discipline_code |-> None,
      document_type |-> None, sheet_number |-> None, revision |-> None,
      revision_type |-> "None", date_issued |-> None, issue_code |-> None,
      csi_division |-> None, csi_section |-> None,
      special_identifiers |-> <<>>, extracted_elements |-> <<>>, keywords |-> <<>>,
      folder_context |-> None ]

\* "Determine revision type" of the primary format
PrimaryRevisionType(revision) ==
    IF revision[1] = "C" THEN "check_print"
    ELSE IF revision[1] = "R" THEN "clean"
    ELSE "issue_code"

\* the branch of a matched primary_format
PrimaryMetadata(filename, primary_match) ==
    [ EmptyAecMetadata EXCEPT
        !.naming_format = "primary",
        !.is_aec_standard = TRUE,
        !.phase_code = Group(filename, primary_match, 1),
        !.discipline_code = Group(filename, primary_match, 2),
        !.document_type = UpperStr(Group(filename, primary_match, 3)),
        !.sheet_number = Group(filename, primary_match, 4),
        !.revision = Group(filename, primary_match, 5),
        !.date_issued = Group(filename, primary_match, 6),
        !.revision_type = PrimaryRevisionType(Group(filename, primary_match, 5)),
        !.extracted_elements = <<"phase_code", "discipline_code", "document_type",
                                 "sheet_number", "revision", "date_issued">> ]

\* the branch of a matched special format
SpecialMetadata(filename, format_name, match) ==
    LET base == [EmptyAecMetadata EXCEPT !.naming_format = format_name,
                                         !.is_aec_standard = TRUE]
    IN  CASE format_name = "meeting" ->
               [ base EXCEPT !.date_issued = Group(filename, match, 1),
                             !.document_type = <<"M","T","G">>,
                             !.extracted_elements = <<"date_issued", "document_type">> ]
          [] format_name = "transmittal" ->
               [ base EXCEPT !.date_issued = Group(filename, match, 3),
                             !.document_type = <<"T","X","M">>,
                             !.extracted_elements = <<"date_issued", "document_type">> ]
          [] format_name = "shop_drawing" ->
               [ base EXCEPT !.discipline_code = Group(filename, match, 1),
                             !.revision = Group(filename, match, 4),
                             !.date_issued = Group(filename, match, 5),
                             !.document_type = <<"S","H","O","P">>,
                             !.extracted_elements = <<"discipline_code", "revision",
                                                      "date_issued", "document_type">> ]
          [] format_name = "as_built" ->
               [ base EXCEPT !.discipline_code = Group(filename, match, 1),
                             !.sheet_number = Group(filename, match, 2),
                             !.date_issued = Group(filename, match, 3),
                             !.document_type = <<"A","B">>,
                             !.extracted_elements = <<"discipline_code", "sheet_number",
                                                      "date_issued", "document_type">> ]

\* the value of a match, None without one
Found(s, m) == IF m.ok THEN Group0(s, m) ELSE None

\* the entry of extracted_elements a match adds
Element(m, name) == IF m.ok THEN <<name>> ELSE <<>>

\* the special identifiers found, in the order of special_patterns
RECURSIVE SpecialIdentifiers(_, _)
SpecialIdentifiers(names, s) ==
    IF Len(names) = 0 THEN <<>>
    ELSE LET special_match == Search(aec_patterns[Head(names)], s, TRUE)
         IN  (IF special_match.ok
              THEN << [type |-> Head(names), value |-> Group0(s, special_match)] >>
              ELSE <<>>)
             \o SpecialIdentifiers(Tail(names), s)

\* the keywords found in the lower-cased stem, in the order of keyword_patterns
RECURSIVE Keywords(_, _)
Keywords(patterns, s) ==
    IF Len(patterns) = 0 THEN <<>>
    ELSE (IF Search(Lit(Head(patterns)), s, FALSE).ok THEN <<Head(patterns)>> ELSE <<>>)
         \o Keywords(Tail(patterns), s)

\* "Fallback to individual pattern matching for legacy formats": a project
\* number alone sets is_aec_standard, and so do two extracted elements
LegacyMetadata(file_path) ==
    LET filename_no_ext == Stem(Name(file_path))
        project_match == Search(aec_patterns.project_number, filename_no_ext, TRUE)
        discipline_match == Search(aec_patterns.discipline_code, filename_no_ext, FALSE)
        doc_match == Search(aec_patterns.document_type, filename_no_ext, TRUE)
        phase_match == Search(aec_patterns.phase_code, filename_no_ext, FALSE)
        check_print_match == Search(aec_patterns.check_print, filename_no_ext, TRUE)
        rev_match == Search(aec_patterns.revision, filename_no_ext, TRUE)
        issue_match == Search(aec_patterns.issue_code, filename_no_ext, FALSE)
        sheet_match == Search(aec_patterns.sheet_number, filename_no_ext, FALSE)
        date_match == Search(aec_patterns.date_format, filename_no_ext, FALSE)
        csi_div_match == Search(aec_patterns.csi_division, filename_no_ext, FALSE)
        csi_sec_match == Search(aec_patterns.csi_section, filename_no_ext, FALSE)
        special_identifiers == SpecialIdentifiers(special_patterns, filename_no_ext)
        extracted_elements ==
            Element(project_match, "project_number")
            \o Element(discipline_match, "discipline_code")
            \o Element(doc_match, "document_type")
            \o Element(phase_match, "phase_code")
            \o (IF check_print_match.ok \/ rev_match.ok THEN <<"revision">> ELSE <<>>)
            \o Element(issue_match, "issue_code")
            \o Element(sheet_match, "sheet_number")
            \o Element(date_match, "date_issued")
            \o Element(csi_div_match, "csi_division")
            \o Element(csi_sec_match, "csi_section")
            \o [i \in 1..Len(special_identifiers) |-> special_identifiers[i].type]
    IN  [ is_aec_standard |-> project_match.ok \/ Len(extracted_elements) >= 2,
          naming_format |-> "legacy",
          project_number |-> Found(filename_no_ext, project_match),
          phase_code |-> Found(filename_no_ext, phase_match),
          discipline_code |-> Found(filename_no_ext, discipline_match),
          document_type |-> UpperStr(Found(filename_no_ext, doc_match)),
          sheet_number |-> Found(filename_no_ext, sheet_match),
          revision |-> IF check_print_match.ok
                       THEN UpperStr(Group0(filename_no_ext, check_print_match))
                       ELSE UpperStr(Found(filename_no_ext, rev_match)),
          revision_type |-> IF issue_match.ok THEN "issue_code"
                            ELSE IF check_print_match.ok THEN "check_print"
                            ELSE IF rev_match.ok THEN "clean"
                            ELSE "None",
          date_issued |-> Found(filename_no_ext, date_match),
          issue_code |-> Found(filename_no_ext, issue_match),
          csi_division |-> Found(filename_no_ext, csi_div_match),
          csi_section |-> Found(filename_no_ext, csi_sec_match),
          special_identifiers |-> special_identifiers,
          extracted_elements |-> extracted_elements,
          keywords |-> Keywords(keyword_patterns, LowerStr(filename_no_ext)),
          folder_context |-> IF Len(file_path) >= 2 THEN Name(Parent(file_path)) ELSE None ]

\* special_formats, in the order of the dictionary
special_formats == <<"meeting", "transmittal", "shop_drawing", "as_built">>

\* the pattern of a special format
SpecialPattern(format_name) ==
    CASE format_name = "meeting" -> aec_patterns.meeting_format
      [] format_name = "transmittal" -> aec_patterns.transmittal_format
      [] format_name = "shop_drawing" -> aec_patterns.shop_drawing_format
      [] format_name = "as_built" -> aec_patterns.as_built_format

\* MetadataExtractor.extract_aec_metadata(file_path): the primary format, then
\* the special formats in order, then the legacy fallback
ExtractAecMetadata(file_path) ==
    LET filename == Name(file_path)
        primary_match == Search(aec_patterns.primary_format, filename, TRUE)
        matching == { j \in 1..Len(special_formats) :
                         Search(SpecialPattern(special_formats[j]), filename, TRUE).ok }
    IN  IF primary_match.ok THEN PrimaryMetadata(filename, primary_match)
        ELSE IF matching # {}
        THEN LET format_name == special_formats[CHOOSE j \in matching : \A x \in matching : j <= x]
             IN  SpecialMetadata(filename, format_name,
                                 Search(SpecialPattern(format_name), filename, TRUE))
        ELSE LegacyMetadata(file_path)

-----------------------------------------------------------------------------
(* Metadata: MetadataExtractor, DatabaseManager.update_file_metadata *)

\* TextFileExtractor.can_extract
TextExtensions ==
    { <<".","t","x","t">>, <<".","m","d">>, <<".","r","t","f">>,
      <<".","c","s","v">>, <<".","l","o","g">> }

\* OfficeDocumentExtractor.can_extract
OfficeExtensions ==
    { <<".","d","o","c","x">>, <<".","x","l","s","x">>, <<".","p","p","t","x">>,
      <<".","d","o","c">>, <<".","x","l","s">>, <<".","p","p","t">> }

\* ImageExtractor.can_extract
ImageExtensions ==
    { <<".","j","p","g">>, <<".","j","p","e","g">>, <<".","p","n","g">>, <<".","t","i","f","f">>,
      <<".","t","i","f">>, <<".","b","m","p">>, <<".","g","i","f">> }

\* str.endswith
EndsWith(s, t) == Len(s) >= Len(t) /\ SubSeq(s, Len(s) - Len(t) + 1, Len(s)) = t

\* one entry of all_metadata
Extractor(applies, name) == IF applies THEN <<name>> ELSE <<>>

\* MetadataExtractor.extract_metadata: the keys of all_metadata in the order
\* of self.extractors; GeneralFileExtractor applies to a path that exists,
\* PDFExtractor and CADExtractor to the end of the lower-cased path, the
\* others to the lower-cased suffix; success is a non-empty dictionary
ExtractMetadata(fsys, file_path) ==
    LET lower == LowerStr(PathStr(file_path))
        suffix == LowerStr(Suffix(Name(file_path)))
    IN  Extractor(PathExists(fsys, file_path), "GeneralFileExtractor")
        \o Extractor(EndsWith(lower, <<".","p","d","f">>), "PDFExtractor")
        \o Extractor(EndsWith(lower, <<".","d","w","g">>) \/ EndsWith(lower, <<".","d","x","f">>), "CADExtractor")
        \o Extractor(suffix \in OfficeExtensions, "OfficeDocumentExtractor")
        \o Extractor(suffix \in ImageExtensions, "ImageExtractor")
        \o Extractor(suffix \in TextExtensions, "TextFileExtractor")

\* the ExtractorResult of extract_metadata for a path given as a string: no
\* can_extract raises on a string and every extract catches its own
\* exceptions, so nothing is appended to errors and success is
\* len(all_metadata) > 0
ExtractorResult(fsys, file_path) ==
    [ success |-> ExtractMetadata(fsys, file_path) # <<>>,
      metadata |-> ExtractMetadata(fsys, file_path),
      errors |-> <<>> ]

\* extract_all_metadata adds the keys aec_metadata and content_summary
MetadataKeys(fsys, file_path) ==
    ExtractMetadata(fsys, file_path) \o <<"aec_metadata", "content_summary">>

\* extract_aec_metadata of the files the catalog specifications hold
AecMetadataOfFile ==
    [ file_path \in ScanUniverse \cup {<<N_p, N_d, N_e, N_config>>, F_dwg} |->
         ExtractAecMetadata(file_path) ]

\* extraction_result.metadata as extract_all_metadata hands it to
\* update_file_metadata: the keys in order and the value of aec_metadata
ExtractionMetadata(fsys, file_path) ==
    [ keys |-> MetadataKeys(fsys, file_path),
      aec_metadata |-> AecMetadataOfFile[file_path] ]

\* the statements update_file_metadata runs for the dictionary, in order:
\* _insert_aec_metadata is a DELETE and an INSERT, every other key one
\* INSERT OR REPLACE INTO file_metadata
RECURSIVE MetadataStatements(_, _)
MetadataStatements(keys, aec_data) ==
    IF keys = <<>> THEN <<>>
    ELSE (IF Head(keys) = "aec_metadata"
          THEN << [stmt |-> "delete_aec", metadata_type |-> Head(keys)],
                  [stmt |-> "insert_aec", metadata_type |-> Head(keys),
                   aec_data |-> aec_data] >>
          ELSE << [stmt |-> "insert_or_replace", metadata_type |-> Head(keys)] >>)
         \o MetadataStatements(Tail(keys), aec_data)

\* INSERT OR REPLACE: the rows that collide with the new row on a PRIMARY KEY
\* or UNIQUE constraint are deleted first; file_metadata has the primary key
\* id and no other constraint
InsertOrReplace(rows, row) ==
    { r \in rows : r.id # row.id } \cup {row}

ExecuteStatement(db, file_id, st) ==
    CASE st.stmt = "insert_or_replace" ->
           [db EXCEPT !.file_metadata =
                         InsertOrReplace(@, [ id |-> db.next_metadata_id,
                                              file_id |-> file_id,
                                              metadata_type |-> st.metadata_type ]),
                      !.next_metadata_id = @ + 1]
      [] st.stmt = "delete_aec" ->
           [db EXCEPT !.aec_file_metadata = { r \in @ : r.file_id # file_id }]
      [] st.stmt = "insert_aec" ->
           [db EXCEPT !.aec_file_metadata =
                         @ \cup { [ id |-> db.next_aec_id, file_id |-> file_id,
                                     project_number |-> st.aec_data.project_number,
                                     discipline_code |-> st.aec_data.discipline_code,
                                     document_type |-> st.aec_data.document_type,
                                     phase_code |-> st.aec_data.phase_code,
                                     revision |-> st.aec_data.revision,
                                     sheet_number |-> st.aec_data.sheet_number,
                                     csi_division |-> st.aec_data.csi_division,
                                     csi_section |-> st.aec_data.csi_section,
                                     keywords |-> st.aec_data.keywords ] },
                      !.next_aec_id = @ + 1]

\* the first k statements, run in order on the connection
RECURSIVE ExecuteStatements(_, _, _, _)
ExecuteStatements(db, file_id, stmts, k) ==
    IF k = 0 \/ stmts = <<>> THEN db
    ELSE ExecuteStatements(ExecuteStatement(db, file_id, Head(stmts)),
                           file_id, Tail(stmts), k - 1)

UpdateFileMetadataNoRollback(db, file_id, metadata, fail_at) ==
    LET stmts == MetadataStatements(metadata.keys, metadata.aec_metadata)
    IN  IF fail_at = 0 \/ fail_at > Len(stmts) + 1
        THEN [db |-> ExecuteStatements(db, file_id, stmts, Len(stmts)), ok |-> TRUE]
        ELSE [db |-> ExecuteStatements(db, file_id, stmts, fail_at - 1), ok |-> FALSE]

\* DatabaseManager.update_file_metadata inside get_connection: all the
\* statements and the commit, or, when statement number fail_at raises
\* (Len + 1: the commit raises), the rollback and False
UpdateFileMetadata(db, file_id, metadata, fail_at) ==
    LET stmts == MetadataStatements(metadata.keys, metadata.aec_metadata)
    IN  IF fail_at = 0 \/ fail_at > Len(stmts) + 1
        THEN [db |-> ExecuteStatements(db, file_id, stmts, Len(stmts)), ok |-> TRUE]
        ELSE [db |-> db, ok |-> FALSE]

-----------------------------------------------------------------------------
(* Orchestrator: AECDirectoryScanner *)

ScanTypes == {"full", "incremental", "validation"}

\* enable_async, the constructor's default
enable_async == TRUE

\* Path(file_path).parents[2]; IndexError (ok = FALSE) with fewer than 3 names
ParentsTwo(file_path) ==
    IF Len(file_path) < 3 THEN [ok |-> FALSE, path |-> <<>>]
    ELSE [ok |-> TRUE, path |-> SubSeq(file_path, 1, Len(file_path) - 3)]

\* scan_project, "Get project information": the root is taken from the first
\* active file of the project when there is one, from table projects otherwise
ResolveProjectPath(rows, project_id) ==
    LET project_info == GetFilesByProject(rows, project_id)
    IN  IF project_info = {}
        THEN IF project_id \notin DOMAIN Projects
             THEN [outcome |-> "not_found", path |-> <<>>]
             ELSE [outcome |-> "ok", path |-> Projects[project_id].base_path]
        ELSE LET up == ParentsTwo(FirstByPath(project_info).file_path)
             IN  IF up.ok THEN [outcome |-> "ok", path |-> up.path]
                 ELSE [outcome |-> "exception", path |-> <<>>]

IncrementalScanInclusive(fsys, root_path, last_scan_time, hf) ==
    { fi \in ScanDirectory(fsys, root_path, hf) :
         fi.modified_time >= last_scan_time \/ fi.created_time >= last_scan_time }

\* FileSystemScanner.incremental_scan
IncrementalScan(fsys, root_path, last_scan_time, hf) ==
    { fi \in ScanDirectory(fsys, root_path, hf) :
         fi.modified_time > last_scan_time \/ fi.created_time > last_scan_time }

\* AsyncFileSystemScanner.incremental_scan_async
IncrementalScanAsync(fsys, root_path, last_scan_time, hf) ==
    { fi \in ScanDirectoryAsync(fsys, root_path, hf) :
         fi.modified_time > last_scan_time \/ fi.created_time > last_scan_time }

\* _validate_scan_results: new files and files modified after the catalog's
\* modified_at
ValidateScanResults(rows, scan_results) ==
    { fi \in scan_results :
         LET existing == GetFileByPath(rows, fi.file_path)
         IN  \/ existing = {}
             \/ \E r \in existing : fi.modified_time > r.modified_at }

\* the scanner call of scan_project for the scan type
ScanResults(fsys, rows, history, project_id, project_path, scan_type, hf) ==
    IF scan_type = "full" THEN ScanDirectory(fsys, project_path, hf)
    ELSE IF scan_type = "incremental"
    THEN IncrementalScan(fsys, project_path, LastScanTime(history, project_id), hf)
    ELSE ValidateScanResults(rows, ScanDirectory(fsys, project_path, hf))

\* all the orders in which a list may hold the elements of S
Orders(S) ==
    { q \in [1..Cardinality(S) -> S] : \A i, j \in 1..Cardinality(S) : q[i] = q[j] => i = j }

\* scan_project, "Process scan results": the loop over scan_results
RECURSIVE Reconcile(_, _, _)
Reconcile(acc, project_id, scan_results) ==
    IF scan_results = <<>> THEN acc
    ELSE LET fi == Head(scan_results)
             existing_file == GetFileByPath(acc.files, fi.file_path)
             ins == InsertFileRecord([files |-> acc.files, next_file_id |-> acc.next_file_id],
                                     FileData(project_id, fi))
         IN  Reconcile(
               [ files |-> ins.files,
                 next_file_id |-> ins.next_file_id,
                 files_added |-> acc.files_added +
                     (IF ins.file_id # 0 /\ existing_file = {} THEN 1 ELSE 0),
                 files_updated |-> acc.files_updated +
                     (IF ins.file_id # 0 /\ existing_file # {} THEN 1 ELSE 0) ],
               project_id, Tail(scan_results))

DetectRemovedFilesNotInResults(rows, fsys, project_id, current_scan_results) ==
    LET current_paths == Paths(current_scan_results)
        gone == { r \in GetFilesByProject(rows, project_id) :
                    r.file_path \notin current_paths }
    IN  [ files |-> { IF r \in gone THEN [r EXCEPT !.is_active = FALSE] ELSE r : r \in rows },
          removed_count |-> Cardinality(gone) ]

\* _detect_removed_files: every active row of the project whose path is not
\* in the scan results and not on disk is set inactive
DetectRemovedFiles(rows, fsys, project_id, current_scan_results) ==
    LET current_paths == Paths(current_scan_results)
        gone == { r \in GetFilesByProject(rows, project_id) :
                    r.file_path \notin current_paths /\ ~PathExists(fsys, r.file_path) }
    IN  [ files |-> { IF r \in gone THEN [r EXCEPT !.is_active = FALSE] ELSE r : r \in rows },
          removed_count |-> Cardinality(gone) ]

\* record_scan_session: INSERT INTO scan_history
RecordScanSession(history, scan_data) ==
    Append(history, [id |-> Len(history) + 1] @@ scan_data)

ScanResult(via, project_id, scan_type, success, recorded, session_id, scanned, added, updated) ==
    [ op |-> "scan", via |-> via, project_id |-> project_id, scan_type |-> scan_type,
      success |-> success, recorded |-> recorded, scan_session_id |-> session_id,
      files_scanned |-> scanned, files_added |-> added, files_updated |-> updated,
      errors_encountered |-> 0 ]

\* the return without a session: project not found, project path missing
ScanReturnsEarly(via, project_id, scan_type) ==
    /\ lastResult' = ScanResult(via, project_id, scan_type, FALSE, FALSE, 0, 0, 0, 0)
    /\ UNCHANGED <<files, next_file_id, scan_history>>

\* the handler of scan_project: a session with scan_status 'failed'
ScanFailsRecorded(project_id, scan_type) ==
    /\ scan_history' = RecordScanSession(scan_history,
          [ project_id |-> project_id, scan_type |-> scan_type,
            start_time |-> clock, end_time |-> clock',
            files_scanned |-> 0, files_added |-> 0, files_updated |-> 0,
            files_removed |-> 0, errors_encountered |-> 1, scan_status |-> "failed" ])
    /\ lastResult' = ScanResult("sync", project_id, scan_type, FALSE, TRUE,
                                Len(scan_history'), 0, 0, 0)
    /\ UNCHANGED <<files, next_file_id>>

\* scan, reconciliation in the order the scanner returned, removal detection,
\* session record
ScanCompletes(project_id, scan_type, project_path) ==
    LET results == ScanResults(fs, files, scan_history, project_id, project_path,
                               scan_type, hash_files)
    IN  \E order \in Orders(results) :
          LET rec == Reconcile([files |-> files, next_file_id |-> next_file_id,
                                files_added |-> 0, files_updated |-> 0],
                               project_id, order)
              det == DetectRemovedFiles(rec.files, fs, project_id, results)
          IN  /\ files' = det.files
              /\ next_file_id' = rec.next_file_id
              /\ scan_history' = RecordScanSession(scan_history,
                    [ project_id |-> project_id, scan_type |-> scan_type,
                      start_time |-> clock, end_time |-> clock',
                      files_scanned |-> Cardinality(results),
                      files_added |-> rec.files_added,
                      files_updated |-> rec.files_updated,
                      files_removed |-> det.removed_count,
                      errors_encountered |-> 0, scan_status |-> "completed" ])
              /\ lastResult' = ScanResult("sync", project_id, scan_type, TRUE, TRUE,
                                          Len(scan_history'), Cardinality(results),
                                          rec.files_added, rec.files_updated)

\* AECDirectoryScanner.scan_project(project_id, scan_type)
ScanProject(project_id, scan_type) ==
    /\ attempts < MaxScans
    /\ clock' = clock + 1
    /\ attempts' = attempts + 1
    /\ LET res == ResolveProjectPath(files, project_id)
       IN  CASE res.outcome = "not_found" -> ScanReturnsEarly("sync", project_id, scan_type)
             [] res.outcome = "exception" -> ScanFailsRecorded(project_id, scan_type)
             [] res.outcome = "ok" /\ ~PathExists(fs, res.path) ->
                    ScanReturnsEarly("sync", project_id, scan_type)
             [] res.outcome = "ok" /\ PathExists(fs, res.path) ->
                    ScanCompletes(project_id, scan_type, res.path)
    /\ UNCHANGED <<fs, hash_files, file_metadata, next_metadata_id,
                   aec_file_metadata, next_aec_id, calls, fsOps, workers, scanOut, connPool>>

\* AECDirectoryScanner.scan_project_async(project_id, scan_type): the project
\* path comes from table projects; _process_scan_results_async iterates the
\* plain generator of StreamingProcessor.process_in_batches with 'async for',
\* which raises TypeError before the first batch, and the handler returns
\* success=False without a scan_history row
ScanProjectAsync(project_id, scan_type) ==
    IF enable_async
    THEN /\ attempts < MaxScans
         /\ clock' = clock + 1
         /\ attempts' = attempts + 1
              /\ ScanReturnsEarly("async", project_id, scan_type)
         /\ UNCHANGED <<fs, hash_files, file_metadata, next_metadata_id,
                        aec_file_metadata, next_aec_id, calls, fsOps, workers, scanOut, connPool>>
    ELSE ScanProject(project_id, scan_type)

\* SecurityManager.config['max_file_size_mb'] in the unit the sizes of the
\* model are counted in: a file of size 1 is at the limit, a larger one over it
max_file_size == 1

\* SecurityManager.validate_file_operation(file_path, 'read', file_size):
\* FALSE stands for ValidationError. allowed_base_paths is empty by default,
\* the paths of the model match no pattern of DANGEROUS_PATTERNS and a read
\* of a protected directory only logs, so the size decides. The only caller
\* is process_batch of _process_scan_results_async; the loop of scan_project
\* does not call it.
ValidateFileOperation(file_path, operation, file_size) ==
    file_size <= max_file_size

\* no database fault during the call
NoFault == [file_id |-> 0, fail_at |-> 0]

\* extract_all_metadata, the loop over the files in the order of the query
\* (ORDER BY file_path): a file that has metadata is skipped unless
\* force_refresh; a file no extractor applies to stores nothing
\* extract_all_metadata after update_file_metadata returned: the file counts
\* as extracted when it returned True and as an error otherwise
StoreExtraction(called, file_id, upd) ==
    IF upd.ok
    THEN [called EXCEPT !.db = upd.db, !.metadata_extracted = @ + 1,
                        !.written = @ \cup {file_id}]
    ELSE [called EXCEPT !.db = upd.db, !.errors_encountered = @ + 1,
                        !.failed = @ \cup {file_id}]

RECURSIVE ExtractLoop(_, _, _, _, _)
ExtractLoop(acc, todo, fsys, force_refresh, fault) ==
    IF todo = {} THEN acc
    ELSE LET file_record == FirstByPath(todo)
             file_id == file_record.id
             existing_metadata == { m \in acc.db.file_metadata : m.file_id = file_id }
             extraction_result == ExtractorResult(fsys, file_record.file_path)
             called == [acc EXCEPT !.results = @ \cup {extraction_result}]
             next == IF ~force_refresh /\ existing_metadata # {} THEN acc
                     ELSE IF ~extraction_result.success THEN called
                     ELSE StoreExtraction(called, file_id,
                            UpdateFileMetadata(acc.db, file_id,
                                ExtractionMetadata(fsys, file_record.file_path),
                                IF fault.file_id = file_id THEN fault.fail_at ELSE 0))
         IN  ExtractLoop(next, todo \ {file_record}, fsys, force_refresh, fault)

\* extract_all_metadata, after the loop: the tables as the loop left them and
\* the returned dictionary
ExtractionReport(project_id, force_refresh, project_files, out) ==
    /\ file_metadata' = out.db.file_metadata
    /\ next_metadata_id' = out.db.next_metadata_id
    /\ aec_file_metadata' = out.db.aec_file_metadata
    /\ next_aec_id' = out.db.next_aec_id
    /\ lastResult' = [ op |-> "extract", project_id |-> project_id,
                       force_refresh |-> force_refresh,
                       success |-> project_files # {},
                       metadata_extracted |-> out.metadata_extracted,
                       errors_encountered |-> out.errors_encountered,
                       written |-> out.written, failed |-> out.failed,
                       results |-> out.results ]

\* AECDirectoryScanner.extract_all_metadata(project_id, force_refresh)
ExtractAllMetadata(project_id, force_refresh, fault) ==
    /\ calls.extractions < MaxExtractions
    /\ calls' = [calls EXCEPT !.extractions = @ + 1]
    /\ ExtractionReport(
         project_id, force_refresh, GetFilesByProject(files, project_id),
         ExtractLoop(
           [ db |-> [ file_metadata |-> file_metadata,
                      next_metadata_id |-> next_metadata_id,
                      aec_file_metadata |-> aec_file_metadata,
                      next_aec_id |-> next_aec_id ],
             metadata_extracted |-> 0, errors_encountered |-> 0,
             written |-> {}, failed |-> {}, results |-> {} ],
           GetFilesByProject(files, project_id), fs, force_refresh, fault))
    /\ UNCHANGED <<fs, clock, hash_files, files, next_file_id, scan_history,
                   attempts, fsOps, workers, scanOut, connPool>>

\* a thread between two calls of insert_file_record
Idle == [pc |-> "idle"]

NoWorkers == [c \in 1..NumClients |-> Idle]

\* a scan thread reaches insert_file_record for the file it has scanned and
\* runs the SELECT
BeginInsertFileRecord(c, p) ==
    /\ calls.upserts < MaxUpserts
    /\ workers[c].pc = "idle"
    /\ p \in DOMAIN fs
    /\ \E fi \in ProcessFile(fs, p, hash_files) :
          workers' = [workers EXCEPT ![c] =
                        [ pc |-> "selected",
                          file_data |-> FileData(1, fi),
                          existing |-> SelectFileId(files, fi.file_path) ]]
    /\ calls' = [calls EXCEPT !.upserts = @ + 1]
    /\ UNCHANGED <<fs, clock, hash_files, catalogVars, attempts, fsOps, lastResult,
                   scanOut, connPool>>

\* the thread runs the UPDATE or the INSERT and commits
FinishInsertFileRecord(c) ==
    /\ workers[c].pc = "selected"
    /\ LET w == WriteFileRecord([files |-> files, next_file_id |-> next_file_id],
                                workers[c].existing, workers[c].file_data)
       IN  /\ files' = w.files
           /\ next_file_id' = w.next_file_id
           /\ lastResult' = [ op |-> "insert_file_record", client |-> c,
                              file_data |-> workers[c].file_data,
                              existing |-> workers[c].existing,
                              file_id |-> w.file_id ]
    /\ workers' = [workers EXCEPT ![c] = Idle]
    /\ UNCHANGED <<fs, clock, hash_files, file_metadata, next_metadata_id,
                   aec_file_metadata, next_aec_id, scan_history, attempts, calls,
                   fsOps, scanOut, connPool>>

\* the removal detection that ends a scan of the project
RunDetectRemovedFiles(project_id) ==
    /\ LET det == DetectRemovedFiles(files, fs, project_id,
                     ScanDirectory(fs, Projects[project_id].base_path, hash_files))
       IN  /\ det.removed_count > 0
           /\ files' = det.files
           /\ lastResult' = [op |-> "detect_removed", project_id |-> project_id,
                             removed_count |-> det.removed_count]
    /\ UNCHANGED <<fs, clock, hash_files, next_file_id, file_metadata, next_metadata_id,
                   aec_file_metadata, next_aec_id, scan_history, attempts, calls,
                   fsOps, workers, scanOut, connPool>>

-----------------------------------------------------------------------------
(* The filesystem is owned by the users: files appear, change and vanish *)

FsResult(kind, p) == [op |-> "fs", kind |-> kind, file_path |-> p]

CreateFile(p) ==
    /\ p \notin DOMAIN fs
    /\ clock' = clock + 1
    /\ fsOps' = fsOps + 1
    /\ fs' = [q \in DOMAIN fs \cup {p} |->
                 IF q = p THEN [size |-> 1, ctime |-> clock', mtime |-> clock',
                                atime |-> clock']
                 ELSE fs[q]]
    /\ lastResult' = FsResult("create", p)
    /\ UNCHANGED <<hash_files, catalogVars, attempts, calls, workers, scanOut, connPool>>

\* a write: st_mtime moves; st_ctime moves where it is the inode change time
\* (POSIX) and stays where it is the creation time (Windows)
ModifyFile(p) ==
    /\ p \in DOMAIN fs
    /\ clock' = clock + 1
    /\ fsOps' = fsOps + 1
    /\ \E sz \in (1..MaxSize) \ {fs[p].size}, ct \in {fs[p].ctime, clock'} :
          fs' = [fs EXCEPT ![p] = [size |-> sz, ctime |-> ct, mtime |-> clock',
                                   atime |-> clock']]
    /\ lastResult' = FsResult("modify", p)
    /\ UNCHANGED <<hash_files, catalogVars, attempts, calls, workers, scanOut, connPool>>

DeleteFile(p) ==
    /\ p \in DOMAIN fs
    /\ clock' = clock + 1
    /\ fsOps' = fsOps + 1
    /\ fs' = [q \in DOMAIN fs \ {p} |-> fs[q]]
    /\ lastResult' = FsResult("delete", p)
    /\ UNCHANGED <<hash_files, catalogVars, attempts, calls, workers, scanOut, connPool>>

-----------------------------------------------------------------------------
(* Spec: one orchestrator scanning while the project tree changes *)

MaxInitFiles == 2

\* the scans a caller asks for: every type on the project, a full scan on
\* the project whose path is gone and on an unknown id
ScanInputs ==
    ({1} \X ScanTypes) \cup ({2, UnknownProjectId} \X {"full"})

AsyncScanInputs == {1, 2, UnknownProjectId} \X {"full"}

Init ==
    /\ \E S \in SUBSET PipelineFiles :
          /\ Cardinality(S) <= MaxInitFiles
          /\ fs = [p \in S |-> FreshFile]
    /\ clock = 0
    /\ hash_files = TRUE
    /\ EmptyCatalog
    /\ attempts = 0
    /\ calls = NoCalls
    /\ fsOps = 0
    /\ lastResult = NoResult
    /\ workers = NoWorkers
    /\ scanOut = NoScannerRun
    /\ connPool = NoPool

Next ==
    \/ \E in \in ScanInputs : ScanProject(in[1], in[2])
    \/ \E in \in AsyncScanInputs : ScanProjectAsync(in[1], in[2])
    \/ \E p \in PipelineFiles : fsOps < MaxFsOps /\ CreateFile(p)
    \/ \E p \in PipelineFiles : fsOps < MaxFsOps /\ ModifyFile(p)
    \/ \E p \in PipelineFiles : fsOps < MaxFsOps /\ DeleteFile(p)

Spec == Init /\ [][Next]_vars

-----------------------------------------------------------------------------
(* Claims about scan_project, checked under Spec *)

IsUnder(p, base) == Len(p) > Len(base) /\ SubSeq(p, 1, Len(base)) = base

\* the non-excluded files currently under a base path
NonExcludedFilesUnder(fsys, base) ==
    { p \in DOMAIN fsys :
        /\ IsUnder(p, base)
        /\ LowerStr(Suffix(Name(p))) \notin excluded_extensions
        /\ ~(Name(p)[1] = "." /\ Name(p) # RESERVED_NAME)
        /\ \A k \in (Len(base) + 1)..(Len(p) - 1) :
              \A x \in excluded_directories : LowerStr(p[k]) # LowerStr(x) }

ActivePaths(rows, project_id) ==
    { r.file_path : r \in { x \in rows : x.project_id = project_id /\ x.is_active } }

\* the last operation was a scan of the project that returned success
CompletedScan(result, project_id, scan_type) ==
    /\ result.op = "scan"
    /\ result.project_id = project_id
    /\ result.scan_type = scan_type
    /\ result.success

\* the step is a call of scan_project or scan_project_async
IsScanStep(project_id, scan_type) ==
    /\ attempts' = attempts + 1
    /\ lastResult'.project_id = project_id
    /\ lastResult'.scan_type = scan_type

\* C1: after a full scan of a project completed with no per-file error, the
\* active File rows of the project are exactly the non-excluded files now
\* under the project's base path
C1_FullScanMirrorsTree ==
    (CompletedScan(lastResult, 1, "full") /\ lastResult.errors_encountered = 0) =>
        ActivePaths(files, 1) = NonExcludedFilesUnder(fs, Projects[1].base_path)

\* C2: a full scan by scan_project that follows a first full scan (N added,
\* 0 updated) on an unchanged tree reports 0 added and N updated and adds no
\* File row
C2_IdempotentRescan ==
    [][ ( /\ CompletedScan(lastResult, 1, "full")
          /\ lastResult.via = "sync"
          /\ lastResult.files_added = lastResult.files_scanned
          /\ lastResult.files_updated = 0
          /\ lastResult.files_scanned =
                Cardinality(NonExcludedFilesUnder(fs, Projects[1].base_path))
          /\ IsScanStep(1, "full")
          /\ lastResult'.via = "sync" )
        => ( /\ lastResult'.success
             /\ lastResult'.files_added = 0
             /\ lastResult'.files_updated = lastResult.files_scanned
             /\ Cardinality(files') = Cardinality(files) ) ]_vars

\* C3: every scan attempt adds exactly one ScanSession row, and a failed
\* project resolution leaves a row with status failed
C3_OneSessionPerAttempt ==
    /\ Len(scan_history) = attempts
    /\ (lastResult.op = "scan" /\ ~lastResult.success) =>
          /\ Len(scan_history) > 0
          /\ scan_history[Len(scan_history)].scan_status = "failed"
          /\ scan_history[Len(scan_history)].project_id = lastResult.project_id

\* C4: with a.txt and b.txt cataloged by a full scan and b.txt deleted from
\* disk, the next full scan sets exactly the row of b.txt inactive, keeps
\* a.txt active, deletes no row and records files_removed = 1
C4_RemovalDetection ==
    [][ ( /\ Len(scan_history) > 0
          /\ scan_history[Len(scan_history)].scan_type = "full"
          /\ scan_history[Len(scan_history)].scan_status = "completed"
          /\ scan_history[Len(scan_history)].files_scanned = 2
          /\ lastResult = FsResult("delete", F_b)
          /\ { r.file_path : r \in files } = {F_a, F_b}
          /\ \A r \in files : r.is_active /\ r.project_id = 1
          /\ DOMAIN fs = {F_a}
          /\ IsScanStep(1, "full") )
        => ( /\ { r.id : r \in files' } = { r.id : r \in files }
             /\ \A r \in files' : r.is_active <=> r.file_path = F_a
             /\ Len(scan_history') = Len(scan_history) + 1
             /\ scan_history'[Len(scan_history')].files_removed = 1 ) ]_vars

\* C15: a scan returns success=False only for an unknown project id or a
\* project whose path does not exist (a catalog that could not be initialized
\* leaves no scanner to call).
C15_FailureOnlyForMissingProject ==
    (lastResult.op = "scan" /\ ~lastResult.success) =>
        \/ lastResult.project_id \notin DOMAIN Projects
        \/ ~PathExists(fs, Projects[lastResult.project_id].base_path)

\* C16: after a full scan of project 1, sync or async, a file under the base
\* path that the validator rejects is not in the catalog with the rejected
\* descriptor's size, the scan reports at least one per-file error and the
\* scan returned success.
C16_RejectedNotPersisted ==
    (lastResult.op = "scan" /\ lastResult.project_id = 1 /\ lastResult.scan_type = "full") =>
        \A p \in NonExcludedFilesUnder(fs, Projects[1].base_path) :
            ~ValidateFileOperation(p, "read", fs[p].size) =>
                /\ lastResult.success
                /\ lastResult.errors_encountered >= 1
                /\ ~\E r \in files : r.file_path = p /\ r.file_size = fs[p].size

\* C20: every call of scan_project on project 1, whatever the scan type and
\* whatever the catalog holds, resolves the path to walk to the base path
\* stored for the project.
C20_WalksStoredBasePath ==
    [][ ( /\ attempts' = attempts + 1
          /\ lastResult'.project_id = 1
          /\ lastResult'.via = "sync" )
        => ResolveProjectPath(files, 1) =
              [outcome |-> "ok", path |-> Projects[1].base_path] ]_vars

\* C22: a call of scan_project or scan_project_async with scan type
\* incremental or validation sets no active File row inactive, and the
\* session it records has files_removed = 0.
C22_OnlyFullScansDeactivate ==
    [][ ( /\ attempts' = attempts + 1
          /\ lastResult'.scan_type \in {"incremental", "validation"} )
        => ( /\ \A r \in files : r.is_active =>
                    \E n \in files' : n.id = r.id /\ n.is_active
             /\ Len(scan_history') > Len(scan_history) =>
                    scan_history'[Len(scan_history')].files_removed = 0 ) ]_vars

-----------------------------------------------------------------------------
(* SpecCatalog: threads that upsert scanned files and removal detection on   *)
(* one catalog while the project tree changes                                *)

F_n == <<N_p, N_d, N_e, N_config>>
CatalogFiles == {F_c, F_n}

\* the statement of update_file_metadata that raises: a statement of the
\* longest dictionary (two extractors, aec_metadata, content_summary) or
\* the commit
FailPoints ==
    1..(Len(MetadataStatements(MetadataKeys([p \in {F_c} |-> FreshFile], F_c),
                               EmptyAecMetadata)) + 1)

FaultInputs ==
    {NoFault} \cup { [file_id |-> f, fail_at |-> k] :
                       f \in 1..Cardinality(CatalogFiles), k \in FailPoints }

InitCatalog ==
    /\ \E S \in SUBSET CatalogFiles : fs = [p \in S |-> FreshFile]
    /\ clock = 0
    /\ hash_files = TRUE
    /\ EmptyCatalog
    /\ attempts = 0
    /\ calls = NoCalls
    /\ fsOps = 0
    /\ lastResult = NoResult
    /\ workers = NoWorkers
    /\ scanOut = NoScannerRun
    /\ connPool = NoPool

NextCatalog ==
    \/ \E c \in 1..NumClients, p \in CatalogFiles : BeginInsertFileRecord(c, p)
    \/ \E c \in 1..NumClients : FinishInsertFileRecord(c)
    \/ RunDetectRemovedFiles(1)
    \/ \E p \in CatalogFiles : fsOps < MaxCatalogFsOps /\ CreateFile(p)
    \/ \E p \in CatalogFiles : fsOps < MaxCatalogFsOps /\ ModifyFile(p)
    \/ \E p \in CatalogFiles : fsOps < MaxCatalogFsOps /\ DeleteFile(p)

SpecCatalog == InitCatalog /\ [][NextCatalog]_vars

-----------------------------------------------------------------------------
(* Claims about insert_file_record, checked under SpecCatalog *)

\* C5: at every moment, after any sequence or interleaving of upserts by
\* the scan threads, the catalog holds at most one File row for a file path
C5_PathUnique ==
    \A r1, r2 \in files : r1.file_path = r2.file_path => r1 = r2

\* two threads raced on an uncataloged path: the INSERT of the second one was
\* rejected and the path has its row
C5_Witness ==
    /\ lastResult.op = "insert_file_record"
    /\ lastResult.existing = {}
    /\ lastResult.file_id = 0
    /\ GetFileByPath(files, lastResult.file_data.file_path) # {}

\* thread c completes an insert_file_record no other writer came between
UpsertStep(c) ==
    /\ workers[c].pc = "selected"
    /\ workers'[c] = Idle
    /\ workers[c].existing = SelectFileId(files, workers[c].file_data.file_path)

\* the effect of the upsert of thread c on table files; created_taken tells
\* whether created_at is to take the descriptor's value or to stay
UpsertEffect(c, created_taken) ==
    LET fd == workers[c].file_data
        old == GetFileByPath(files, fd.file_path)
    IN  IF old # {}
        THEN \E r \in old, n \in files' :
               /\ n.id = r.id
               /\ n.file_path = r.file_path
               /\ n.file_size = fd.file_size
               /\ n.file_hash = fd.file_hash
               /\ n.modified_at = fd.modified_at
               /\ n.last_accessed = fd.last_accessed
               /\ n.created_at = (IF created_taken THEN fd.created_at ELSE r.created_at)
               /\ n.scan_count = r.scan_count + 1
               /\ n.is_active
               /\ files' \ {n} = files \ {r}
        ELSE \E n \in files' :
               /\ n.file_path = fd.file_path
               /\ n \notin files
               /\ files' = files \cup {n}
               /\ Cardinality(files') = Cardinality(files) + 1

\* C6: an upsert of a cataloged path keeps the row id, gives size, hash and
\* the created, modified and accessed timestamps the new values, adds 1 to
\* scan_count and sets active; an upsert of an uncataloged path inserts
\* exactly one row
C6_UpsertInPlace ==
    [][ \A c \in 1..NumClients : UpsertStep(c) => UpsertEffect(c, TRUE) ]_vars

\* C6 (amended): as above for the modified and accessed timestamps, while
\* created_at keeps the value of the first insert
C6_UpsertInPlaceKeepsCreated ==
    [][ \A c \in 1..NumClients : UpsertStep(c) => UpsertEffect(c, FALSE) ]_vars

\* an upsert has updated the row of a file whose size and st_ctime had changed
C6_Witness ==
    /\ lastResult.op = "insert_file_record"
    /\ lastResult.file_id \in lastResult.existing
    /\ \E r \in files :
          /\ r.id = lastResult.file_id
          /\ r.scan_count >= 2
          /\ r.file_size = lastResult.file_data.file_size
          /\ r.file_size # FreshFile.size
          /\ r.created_at # lastResult.file_data.created_at

-----------------------------------------------------------------------------
(* SpecMeta: metadata extraction on the files one thread has cataloged *)

NextMeta ==
    \/ \E p \in CatalogFiles : BeginInsertFileRecord(1, p)
    \/ FinishInsertFileRecord(1)
    \/ \E force_refresh \in BOOLEAN, fault \in FaultInputs :
          ExtractAllMetadata(1, force_refresh, fault)
    \/ \E p \in CatalogFiles : fsOps < MaxFsOps /\ DeleteFile(p)

SpecMeta == InitCatalog /\ [][NextMeta]_vars

-----------------------------------------------------------------------------
(* Claims about metadata records, checked under SpecMeta *)

\* C7: after any sequence of extractions there is at most one file_metadata
\* record per (file id, metadata type)
C7_OneRecordPerType ==
    \A m1, m2 \in file_metadata :
        (m1.file_id = m2.file_id /\ m1.metadata_type = m2.metadata_type) => m1 = m2

AecRecords(rows, file_id) == { r \in rows : r.file_id = file_id }

\* C8: a file has at most one aec_file_metadata record; an extraction
\* replaces it by a whole new record or, when the write fails, leaves it as
\* it was; a file that had a record never ends up without one
C8_AecReplacedAtomically ==
    [][ \A f \in { r.id : r \in files } :
          LET before == AecRecords(aec_file_metadata, f)
              after == AecRecords(aec_file_metadata', f)
          IN  /\ Cardinality(after) <= 1
              /\ before # {} => after # {}
              /\ after # before => \A r \in after : r.id >= next_aec_id
              /\ (lastResult'.op = "extract" /\ f \in lastResult'.failed) =>
                    after = before ]_vars

\* a forced re-extraction replaced the record of one file while the write
\* for another file failed and left that file's record in place
C8_Witness ==
    /\ lastResult.op = "extract"
    /\ lastResult.force_refresh
    /\ \E f \in lastResult.failed : AecRecords(aec_file_metadata, f) # {}
    /\ lastResult.written # {}
    /\ next_aec_id - 1 > Cardinality(aec_file_metadata)

\* C14: extract_metadata returns a result for every path it is called with,
\* and a result with success=False has a non-empty error list.
C14_FailureCarriesErrors ==
    lastResult.op = "extract" =>
       \A r \in lastResult.results : ~r.success => r.errors # <<>>

-----------------------------------------------------------------------------
(* SpecScanner: the two scanners on one static tree *)

ScanRoots == { <<N_p>>, <<N_p, N_d>>, <<N_p, N_d, N_e>> }

InitScanner ==
    /\ \E S \in SUBSET ScanUniverse : fs = [p \in S |-> FreshFile]
    /\ clock = 0
    /\ hash_files \in BOOLEAN
    /\ EmptyCatalog
    /\ attempts = 0
    /\ calls = NoCalls
    /\ fsOps = 0
    /\ lastResult = NoResult
    /\ workers = NoWorkers
    /\ scanOut = NoScannerRun
    /\ connPool = NoPool

\* file_scanner.scan_directory(root) on the tree
RunScanDirectory(root) ==
    /\ "thread" \notin scanOut.ran
    /\ scanOut.ran = {} \/ scanOut.root = root
    /\ scanOut' = [scanOut EXCEPT !.ran = @ \cup {"thread"}, !.root = root,
                                  !.thread = ScanDirectory(fs, root, hash_files)]
    /\ UNCHANGED <<fs, clock, hash_files, catalogVars, attempts, calls, fsOps,
                   lastResult, workers, connPool>>

\* async_file_scanner.scan_directory_async(root) on the tree
RunScanDirectoryAsync(root) ==
    /\ "async" \notin scanOut.ran
    /\ scanOut.ran = {} \/ scanOut.root = root
    /\ scanOut' = [scanOut EXCEPT !.ran = @ \cup {"async"}, !.root = root,
                                  !.async = ScanDirectoryAsync(fs, root, hash_files)]
    /\ UNCHANGED <<fs, clock, hash_files, catalogVars, attempts, calls, fsOps,
                   lastResult, workers, connPool>>

NextScanner ==
    \/ \E root \in ScanRoots : RunScanDirectory(root)
    \/ \E root \in ScanRoots : RunScanDirectoryAsync(root)

SpecScanner == InitScanner /\ [][NextScanner]_vars

-----------------------------------------------------------------------------
(* Claims about the scanners *)

\* the names of the directories strictly between the scan root and the file
DirsBelowRoot(root, p) == { p[k] : k \in (Len(root) + 1)..(Len(p) - 1) }

\* C9: on the same tree and the same exclusion settings the thread-pool
\* scanner and the asyncio scanner return the same set of file paths
C9_ScannersAgree ==
    scanOut.ran = {"thread", "async"} =>
        Paths(scanOut.thread) = Paths(scanOut.async)

\* C10: no descriptor returned by either scanner has an excluded extension,
\* a hidden name other than the reserved metadata file name, or a directory
\* below the scan root whose name is in the exclusion set, case-insensitively
C10_NoExcludedOutput ==
    \A i \in scanOut.thread \cup scanOut.async :
        /\ LowerStr(Suffix(i.file_name)) \notin excluded_extensions
        /\ ~(i.file_name[1] = "." /\ i.file_name # RESERVED_NAME)
        /\ \A dn \in DirsBelowRoot(scanOut.root, i.file_path) :
              \A x \in excluded_directories : LowerStr(dn) # LowerStr(x)

\* both scanners ran on a tree that holds excluded files, a hidden file and
\* a file below an excluded directory, and returned something
C10_Witness ==
    /\ scanOut.ran = {"thread", "async"}
    /\ scanOut.root = <<N_p>>
    /\ {<<N_p, N_hidden>>, <<N_p, N_d, N_Temp, N_t_txt>>,
        <<N_p, N_git, N_config>>, <<N_p, N_d, N_e, N_x_TMP>>} \subseteq DOMAIN fs
    /\ scanOut.thread # {}
    /\ scanOut.async # {}

-----------------------------------------------------------------------------
(* SpecIncremental: the incremental scans of the two scanners on one tree    *)
(* whose files carry any timestamps                                          *)

IncrementalFiles == {F_a, F_c}

\* the cutoffs handed to the scanners: datetime.min and every timestamp
Cutoffs == DatetimeMin..MaxTime

InitIncremental ==
    /\ \E S \in SUBSET IncrementalFiles :
          fs \in [S -> [size : {1}, ctime : 0..MaxTime, mtime : 0..MaxTime, atime : {0}]]
    /\ clock = 0
    /\ hash_files = FALSE
    /\ EmptyCatalog
    /\ attempts = 0
    /\ calls = NoCalls
    /\ fsOps = 0
    /\ lastResult = NoResult
    /\ workers = NoWorkers
    /\ scanOut = NoScannerRun
    /\ connPool = NoPool

IncrementalResult(via, root, last_scan_time, out) ==
    [ op |-> "incremental_scan", via |-> via, root |-> root,
      last_scan_time |-> last_scan_time, out |-> out ]

\* file_scanner.incremental_scan(root, last_scan_time)
RunIncrementalScan(root, last_scan_time) ==
    /\ lastResult' = IncrementalResult("thread", root, last_scan_time,
                         IncrementalScan(fs, root, last_scan_time, hash_files))
    /\ UNCHANGED <<fs, clock, hash_files, catalogVars, attempts, calls, fsOps,
                   workers, scanOut, connPool>>

\* async_file_scanner.incremental_scan_async(root, last_scan_time)
RunIncrementalScanAsync(root, last_scan_time) ==
    /\ lastResult' = IncrementalResult("async", root, last_scan_time,
                         IncrementalScanAsync(fs, root, last_scan_time, hash_files))
    /\ UNCHANGED <<fs, clock, hash_files, catalogVars, attempts, calls, fsOps,
                   workers, scanOut, connPool>>

NextIncremental ==
    \/ \E root \in ScanRoots, t \in Cutoffs : RunIncrementalScan(root, t)
    \/ \E root \in ScanRoots, t \in Cutoffs : RunIncrementalScanAsync(root, t)

SpecIncremental == InitIncremental /\ [][NextIncremental]_vars

\* the full scan of the scanner that produced the result
FullScanOf(result) ==
    IF result.via = "thread" THEN ScanDirectory(fs, result.root, hash_files)
    ELSE ScanDirectoryAsync(fs, result.root, hash_files)

\* C11: an incremental scan with cutoff T returns exactly the descriptors of
\* the full scan whose modified time or created time is strictly after T
C11_IncrementalIsStrictFilter ==
    lastResult.op = "incremental_scan" =>
        /\ lastResult.out \subseteq FullScanOf(lastResult)
        /\ \A fi \in FullScanOf(lastResult) :
              fi \in lastResult.out <=>
                 ( fi.modified_time > lastResult.last_scan_time
                   \/ fi.created_time > lastResult.last_scan_time )

\* one file with both times at the cutoff was left out while one changed
\* after the cutoff was returned
C11_Witness ==
    /\ lastResult.op = "incremental_scan"
    /\ \E fi \in FullScanOf(lastResult) \ lastResult.out :
          /\ fi.modified_time = lastResult.last_scan_time
          /\ fi.created_time = lastResult.last_scan_time
    /\ \E fi \in lastResult.out :
          /\ fi.modified_time > lastResult.last_scan_time
          /\ fi.created_time <= lastResult.last_scan_time

-----------------------------------------------------------------------------
(* SpecPool: threads inside ConnectionPool.get_connection                    *)
(*                                                                           *)
(* connPool.queue is _pool, connPool.all the connection objects alive (the   *)
(* members of _all_connections), connPool.open those of them not closed,     *)
(* connPool.lock the thread that holds _lock (0: nobody).                    *)

\* one thread more than the pool has connections
PoolThreads == 1..(max_connections + 1)

\* a thread outside get_connection
OutsidePool == [pc |-> "out", conn |-> 0, replaced |-> FALSE, body |-> "not_run",
                committed |-> FALSE, rolled_back |-> FALSE]

\* ConnectionPool.__init__ and _populate_pool: max_connections calls of
\* _create_connection, each of which may return None
PoolAfterInit(k) ==
    [ queue |-> [i \in 1..k |-> i], all |-> 1..k, open |-> 1..k,
      lock |-> 0, checkouts |-> 0, threads |-> [t \in PoolThreads |-> OutsidePool] ]

InitPool ==
    /\ fs = <<>>
    /\ clock = 0
    /\ hash_files = FALSE
    /\ EmptyCatalog
    /\ attempts = 0
    /\ calls = NoCalls
    /\ fsOps = 0
    /\ lastResult = NoResult
    /\ workers = NoWorkers
    /\ scanOut = NoScannerRun
    /\ \E k \in 0..max_connections : connPool = PoolAfterInit(k)

\* the connection object a successful _create_connection returns: one that is
\* not alive yet
NewConnection == CHOOSE c \in 1..(Cardinality(connPool.all) + 1) : c \notin connPool.all

PoolFrame ==
    UNCHANGED <<fs, clock, hash_files, catalogVars, attempts, calls, fsOps,
                workers, scanOut>>

\* the end of get_connection for thread t in pool state P: what the call did
LeavePool(P, t) ==
    /\ connPool' = [P EXCEPT !.threads[t] = OutsidePool]
    /\ lastResult' = [ op |-> "get_connection",
                       conn |-> P.threads[t].conn, replaced |-> P.threads[t].replaced,
                       body |-> P.threads[t].body,
                       committed |-> P.threads[t].committed,
                       rolled_back |-> P.threads[t].rolled_back ]

StayInPool(P) ==
    /\ connPool' = P
    /\ UNCHANGED lastResult

\* self._pool.get(timeout=5) returns a connection
PoolGet(t) ==
    /\ connPool.threads[t].pc = "out"
    /\ connPool.checkouts < MaxCheckouts
    /\ connPool.queue # <<>>
    /\ StayInPool([connPool EXCEPT
           !.queue = Tail(@),
           !.checkouts = @ + 1,
           !.threads[t] = [OutsidePool EXCEPT !.pc = "health",
                                              !.conn = Head(connPool.queue)]])
    /\ PoolFrame

\* self._pool.get(timeout=5) raises Empty: the thread goes for the lock
PoolGetEmpty(t) ==
    /\ connPool.threads[t].pc = "out"
    /\ connPool.checkouts < MaxCheckouts
    /\ connPool.queue = <<>>
    /\ StayInPool([connPool EXCEPT !.checkouts = @ + 1,
                                   !.threads[t] = [OutsidePool EXCEPT !.pc = "lock"]])
    /\ PoolFrame

GrowUnchecked(t, created) ==
    /\ connPool.threads[t].pc = "lock"
    /\ connPool.lock = 0
    /\ IF created
       THEN StayInPool([connPool EXCEPT
                !.all = @ \cup {NewConnection},
                !.open = @ \cup {NewConnection},
                !.threads[t] = [@ EXCEPT !.pc = "health", !.conn = NewConnection]])
       ELSE LeavePool(connPool, t)
    /\ PoolFrame

\* with self._lock: below the limit _create_connection is called, and None
\* from it raises RuntimeError; at the limit the thread waits for the pool
\* with the lock held
Grow(t, created) ==
    /\ connPool.threads[t].pc = "lock"
    /\ connPool.lock = 0
    /\ IF Cardinality(connPool.all) < max_connections
       THEN IF created
            THEN StayInPool([connPool EXCEPT
                     !.all = @ \cup {NewConnection},
                     !.open = @ \cup {NewConnection},
                     !.threads[t] = [@ EXCEPT !.pc = "health", !.conn = NewConnection]])
            ELSE LeavePool(connPool, t)
       ELSE StayInPool([connPool EXCEPT !.lock = t, !.threads[t].pc = "wait"])
    /\ PoolFrame

\* self._pool.get(timeout=self.timeout) returns a connection
WaitGet(t) ==
    /\ connPool.threads[t].pc = "wait"
    /\ connPool.queue # <<>>
    /\ StayInPool([connPool EXCEPT
           !.queue = Tail(@),
           !.lock = 0,
           !.threads[t] = [@ EXCEPT !.pc = "health", !.conn = Head(connPool.queue)]])
    /\ PoolFrame

\* self._pool.get(timeout=self.timeout) raises Empty
WaitTimeout(t) ==
    /\ connPool.threads[t].pc = "wait"
    /\ connPool.queue = <<>>
    /\ LeavePool([connPool EXCEPT !.lock = 0], t)
    /\ PoolFrame

\* "Test connection health": SELECT 1 works, or it raises and the stale
\* connection is closed
HealthCheck(t, healthy) ==
    /\ connPool.threads[t].pc = "health"
    /\ IF healthy
       THEN StayInPool([connPool EXCEPT !.threads[t].pc = "body"])
       ELSE StayInPool([connPool EXCEPT !.open = @ \ {connPool.threads[t].conn},
                                        !.threads[t].pc = "replace"])
    /\ PoolFrame

\* conn = self._create_connection() after the close: the stale object is
\* dropped; None raises RuntimeError and nothing is left to return
Replace(t, created) ==
    /\ connPool.threads[t].pc = "replace"
    /\ IF created
       THEN StayInPool([connPool EXCEPT
                !.all = (@ \ {connPool.threads[t].conn}) \cup {NewConnection},
                !.open = @ \cup {NewConnection},
                !.threads[t] = [@ EXCEPT !.pc = "body", !.conn = NewConnection,
                                         !.replaced = TRUE]])
       ELSE LeavePool([connPool EXCEPT !.all = @ \ {connPool.threads[t].conn},
                                       !.threads[t] = [@ EXCEPT !.conn = 0,
                                                                !.replaced = TRUE]], t)
    /\ PoolFrame

\* yield conn: the enclosed operation finishes, or raises and the handler
\* rolls back
Body(t, raised) ==
    /\ connPool.threads[t].pc = "body"
    /\ IF raised
       THEN StayInPool([connPool EXCEPT !.threads[t] =
                [@ EXCEPT !.pc = "return", !.body = "raised", !.rolled_back = TRUE]])
       ELSE StayInPool([connPool EXCEPT !.threads[t] =
                [@ EXCEPT !.pc = "commit", !.body = "finished"]])
    /\ PoolFrame

CommitNoRollback(t, commit_ok) ==
    /\ connPool.threads[t].pc = "commit"
    /\ IF commit_ok
       THEN StayInPool([connPool EXCEPT !.threads[t] =
                [@ EXCEPT !.pc = "return", !.committed = TRUE]])
       ELSE StayInPool([connPool EXCEPT !.threads[t].pc = "return"])
    /\ PoolFrame

\* else: conn.commit(), and conn.rollback() when the commit raises
Commit(t, commit_ok) ==
    /\ connPool.threads[t].pc = "commit"
    /\ IF commit_ok
       THEN StayInPool([connPool EXCEPT !.threads[t] =
                [@ EXCEPT !.pc = "return", !.committed = TRUE]])
       ELSE StayInPool([connPool EXCEPT !.threads[t] =
                [@ EXCEPT !.pc = "return", !.rolled_back = TRUE]])
    /\ PoolFrame

\* finally: put_nowait(conn), or conn.close() when the pool is full
Return(t) ==
    /\ connPool.threads[t].pc = "return"
    /\ IF Len(connPool.queue) < max_connections
       THEN LeavePool([connPool EXCEPT !.queue = Append(@, connPool.threads[t].conn)], t)
       ELSE LeavePool([connPool EXCEPT !.open = @ \ {connPool.threads[t].conn},
                                       !.all = @ \ {connPool.threads[t].conn}], t)
    /\ PoolFrame

NextPool ==
    \/ \E t \in PoolThreads : PoolGet(t)
    \/ \E t \in PoolThreads : PoolGetEmpty(t)
    \/ \E t \in PoolThreads, created \in BOOLEAN : Grow(t, created)
    \/ \E t \in PoolThreads : WaitGet(t)
    \/ \E t \in PoolThreads : WaitTimeout(t)
    \/ \E t \in PoolThreads, healthy \in BOOLEAN : HealthCheck(t, healthy)
    \/ \E t \in PoolThreads, created \in BOOLEAN : Replace(t, created)
    \/ \E t \in PoolThreads, raised \in BOOLEAN : Body(t, raised)
    \/ \E t \in PoolThreads, commit_ok \in BOOLEAN : Commit(t, commit_ok)
    \/ \E t \in PoolThreads : Return(t)

SpecPool == InitPool /\ [][NextPool]_vars

\* connections that are in _pool
Pooled == {connPool.queue[i] : i \in 1..Len(connPool.queue)}

\* connections a thread inside get_connection holds
HeldBy(t) == IF connPool.threads[t].pc = "out" THEN {} ELSE {connPool.threads[t].conn}

\* C12: a get_connection call whose enclosed operation finished normally ends
\* with a commit, or with a rollback when the commit raised, never both and
\* never neither; one whose operation raised ends with a rollback and no
\* commit; and at any time an open connection is in the pool or held by a call
\* that is still running, so a call that is over has left its connection in
\* the pool or closed.
C12_CheckoutEndsCleanly ==
    /\ lastResult.op = "get_connection" =>
          /\ lastResult.body = "finished" =>
                (lastResult.committed # lastResult.rolled_back)
          /\ lastResult.body = "raised" =>
                (lastResult.rolled_back /\ ~lastResult.committed)
          /\ lastResult.body = "not_run" =>
                (~lastResult.rolled_back /\ ~lastResult.committed)
    /\ \A c \in connPool.open :
          c \in Pooled \/ \E t \in PoolThreads : c \in HeldBy(t)

\* a call that replaced a stale connection, ran its operation, failed to
\* commit and rolled back: the stale connection is closed, the new one pooled
C12_Witness ==
    /\ lastResult.op = "get_connection"
    /\ lastResult.replaced
    /\ lastResult.body = "finished"
    /\ lastResult.rolled_back
    /\ lastResult.conn \in Pooled

\* C13: the connections that are open, pooled or checked out, are never more
\* than max_connections.
C13_OpenNeverExceedsMax ==
    Cardinality(connPool.open) <= max_connections

\* every connection is checked out, one of them being a replacement for a
\* stale one, while another thread waits for the pool with the lock held
C13_Witness ==
    /\ Cardinality(connPool.open) = max_connections
    /\ connPool.queue = <<>>
    /\ \E t \in PoolThreads : connPool.threads[t].pc = "wait"
    /\ \E t \in PoolThreads : connPool.threads[t].pc = "body" /\ connPool.threads[t].replaced

-----------------------------------------------------------------------------
(* SpecNaming: extract_aec_metadata on a family of filenames *)

N_temp == <<"t","e","m","p">>

\* the issue codes of aec_patterns["issue_code"]
IssueCodes ==
    { <<"I","F","C">>, <<"I","F","B">>, <<"I","F","P">>, <<"A","B">>,
      <<"R","F","I">>, <<"P","C","O">>, <<"F","O","R">>,
      <<"C","O","N","S","T">>, <<"R","E","C","O","R","D">> }

\* revision tokens: clean revisions, check prints and the issue codes
RevisionTokens ==
    { <<"R","0">>, <<"R","1">>, <<"R","1","5">>, <<"C","0","5">>,
      <<"C","1","2">> } \cup IssueCodes

\* Phase_A_DWG_Sheet_Revision_010124.pdf, the six fields of the primary format
PrimaryName(phase, sheet, rev) ==
    phase \o <<"_","A","_","D","W","G","_">> \o sheet \o <<"_">> \o rev \o <<"_","0","1","0","1","2","4",".","p","d","f">>

\* Project_CD_A_DWG_001_Revision_2024-01-15.pdf, the seven fields of
\* src/test_naming_conventions.py
LegacyName(project, rev) ==
    project \o <<"_","C","D","_","A","_","D","W","G","_","0","0","1","_">> \o rev \o <<"_","2","0","2","4","-","0","1","-","1","5",".","p","d","f">>

\* names without a revision token: short names, the special formats, names
\* with a special identifier, a CSI section, a keyword
OtherNames ==
    { <<"n","o","t","e","s",".","t","x","t">>, <<"a",".","t","x","t">>,
      <<"a","b",".","t","x","t">>, <<"a","b","c",".","t","x","t">>,
      <<"x","1",".","t","x","t">>, <<"x","y",".","t","x","t">>,
      <<"r","e","a","d","m","e",".","m","d">>,
      <<"c","o","n","f","i","g">>,
      <<"M","T","G","_","0","1","0","1","2","4","_","K","i","c","k","o","f","f",".","p","d","f">>,
      <<"T","X","M","_","A","R","C","H","_","0","0","1","_","0","1","0","1","2","4",".","p","d","f">>,
      <<"S","H","O","P","_","S","_","S","T","E","E","L","_","B","E","A","M","_","R","1","_","0","1","0","1","2","4",".","p","d","f">>,
      <<"A","B","_","A","_","0","0","1","_","0","1","0","1","2","4",".","p","d","f">>,
      <<"S","U","B","-","0","0","1","_","p","l","a","n",".","p","d","f">>,
      <<"0","3"," ","3","0"," ","0","0","_","s","p","e","c",".","d","o","c","x">>,
      <<"s","i","t","e","_","p","h","o","t","o",".","j","p","g">> }

\* the filenames parsed, each with the revision token it was built from
NamingInputs ==
    { [file_path |-> <<N_temp, PrimaryName(phase, sheet, rev)>>, revision_token |-> rev] :
         phase \in {<<"C","D">>, <<"D","D">>}, sheet \in {<<"0","0","1">>, <<"S","2","0","1">>}, rev \in RevisionTokens }
    \cup
    { [file_path |-> <<N_temp, LegacyName(project, rev)>>, revision_token |-> rev] :
         project \in {<<"P","R","O","J","1","2","3">>, <<"L","A","B","1">>}, rev \in RevisionTokens }
    \cup
    { [file_path |-> <<N_temp, name>>, revision_token |-> None] : name \in OtherNames }

InitNaming ==
    /\ fs = <<>>
    /\ clock = 0
    /\ hash_files = FALSE
    /\ EmptyCatalog
    /\ attempts = 0
    /\ calls = NoCalls
    /\ fsOps = 0
    /\ workers = NoWorkers
    /\ scanOut = NoScannerRun
    /\ connPool = NoPool
    /\ \E in \in NamingInputs :
          lastResult = [op |-> "filename", file_path |-> in.file_path,
                        revision_token |-> in.revision_token]

\* metadata_extractor.extract_aec_metadata(file_path)
RunExtractAecMetadata ==
    /\ lastResult.op = "filename"
    /\ lastResult' = [ op |-> "extract_aec_metadata",
                       file_path |-> lastResult.file_path,
                       revision_token |-> lastResult.revision_token,
                       aec_metadata |-> ExtractAecMetadata(lastResult.file_path) ]
    /\ UNCHANGED <<fs, clock, hash_files, catalogVars, attempts, calls, fsOps,
                   workers, scanOut, connPool>>

NextNaming == RunExtractAecMetadata

SpecNaming == InitNaming /\ [][NextNaming]_vars

\* C followed by digits, R followed by digits
LetterAndDigits(tok, letter) ==
    /\ Len(tok) >= 2
    /\ tok[1] = letter
    /\ \A i \in 2..Len(tok) : tok[i] \in DIGITS

\* C18: a filename built with a revision token C+digits parses to
\* revision_type "check_print", with R+digits to "clean", and with a token of
\* the issue-code vocabulary to "issue_code" with the token in issue_code.
C18_RevisionClassification ==
    (lastResult.op = "extract_aec_metadata" /\ lastResult.revision_token # None) =>
        LET tok == lastResult.revision_token
            m == lastResult.aec_metadata
        IN  /\ LetterAndDigits(tok, "C") => m.revision_type = "check_print"
            /\ LetterAndDigits(tok, "R") => m.revision_type = "clean"
            /\ tok \in IssueCodes =>
                  (m.revision_type = "issue_code" /\ m.issue_code = tok)

\* C19: a filename that falls through to the legacy matching is reported as
\* AEC-standard only with at least two distinct extracted elements.
C19_LegacyNeedsTwoFields ==
    (lastResult.op = "extract_aec_metadata"
       /\ lastResult.aec_metadata.naming_format = "legacy"
       /\ lastResult.aec_metadata.is_aec_standard) =>
        LET elements == lastResult.aec_metadata.extracted_elements
        IN  Cardinality({ elements[i] : i \in 1..Len(elements) }) >= 2

-----------------------------------------------------------------------------
(* SpecEndToEnd: project 1 holds one drawing and a .git directory *)

EndToEndTree == [p \in {F_dwg, F_git_config} |-> FreshFile]

InitEndToEnd ==
    /\ fs = EndToEndTree
    /\ clock = 0
    /\ hash_files = TRUE
    /\ EmptyCatalog
    /\ attempts = 0
    /\ calls = NoCalls
    /\ fsOps = 0
    /\ lastResult = NoResult
    /\ workers = NoWorkers
    /\ scanOut = NoScannerRun
    /\ connPool = NoPool

NextEndToEnd ==
    \/ \E scan_type \in ScanTypes : ScanProject(1, scan_type)
    \/ \E scan_type \in ScanTypes : ScanProjectAsync(1, scan_type)
    \/ \E force_refresh \in BOOLEAN : ExtractAllMetadata(1, force_refresh, NoFault)
    \/ fsOps < MaxFsOps /\ ModifyFile(F_dwg)
    \/ fsOps < MaxFsOps /\ DeleteFile(F_dwg)

SpecEndToEnd == InitEndToEnd /\ [][NextEndToEnd]_vars

\* C17: when the first scan of the tree was a full scan, it reported
\* files_scanned = 1, the catalog holds one File row, active, one
\* aec_file_metadata row of that file with discipline A, document type DWG
\* and phase CD, and one scan_history row with status completed.
C17_EndToEnd ==
    ( /\ lastResult.op = "scan"
      /\ lastResult.scan_type = "full"
      /\ attempts = 1
      /\ fs = EndToEndTree ) =>
        /\ lastResult.files_scanned = 1
        /\ Cardinality(files) = 1
        /\ \A r \in files : r.is_active /\ r.file_path = F_dwg
        /\ Cardinality(aec_file_metadata) = 1
        /\ \A m \in aec_file_metadata :
              /\ \E r \in files : r.id = m.file_id
              /\ m.discipline_code = <<"A">>
              /\ m.document_type = <<"D","W","G">>
              /\ m.phase_code = <<"C","D">>
        /\ Len(scan_history) = 1
        /\ scan_history[1].scan_status = "completed"

\* what the scenario reaches with a separate extract_all_metadata call after
\* the scan: the row of the drawing with discipline A, type DWG, phase CD
EndToEndAfterExtraction ==
    /\ lastResult.op = "extract"
    /\ Cardinality(files) = 1
    /\ \E m \in aec_file_metadata :
          /\ m.discipline_code = <<"A">>
          /\ m.document_type = <<"D","W","G">>
          /\ m.phase_code = <<"C","D">>

-----------------------------------------------------------------------------
(* SpecReconcile: the reconciliation loop of scan_project over the list a    *)
(* scan returned, taken in any order                                         *)

ReconcileFiles == {F_a, F_c, F_g}

InitReconcile ==
    /\ \E S \in SUBSET ReconcileFiles : fs = [p \in S |-> FreshFile]
    /\ clock = 0
    /\ hash_files = TRUE
    /\ EmptyCatalog
    /\ attempts = 0
    /\ calls = NoCalls
    /\ fsOps = 0
    /\ lastResult = NoResult
    /\ workers = NoWorkers
    /\ scanOut = NoScannerRun
    /\ connPool = NoPool

\* the counters scan_project starts the loop with, on the catalog as it is
ReconcileStart(rows, next_id) ==
    [files |-> rows, next_file_id |-> next_id, files_added |-> 0, files_updated |-> 0]

\* scan_project, "Process scan results", on the list of a full scan of the
\* base path of project 1
RunReconcile ==
    /\ calls.upserts < MaxReconciles
    /\ calls' = [calls EXCEPT !.upserts = @ + 1]
    /\ \E order \in Orders(ScanDirectory(fs, Projects[1].base_path, hash_files)) :
          LET rec == Reconcile(ReconcileStart(files, next_file_id), 1, order)
          IN  /\ files' = rec.files
              /\ next_file_id' = rec.next_file_id
              /\ lastResult' = [ op |-> "reconcile", scan_results |-> order,
                                 files_added |-> rec.files_added,
                                 files_updated |-> rec.files_updated ]
    /\ UNCHANGED <<fs, clock, hash_files, file_metadata, next_metadata_id,
                   aec_file_metadata, next_aec_id, scan_history, attempts, fsOps,
                   workers, scanOut, connPool>>

NextReconcile ==
    \/ RunReconcile
    \/ RunDetectRemovedFiles(1)
    \/ \E p \in ReconcileFiles : fsOps < MaxReconcileFsOps /\ CreateFile(p)
    \/ \E p \in ReconcileFiles : fsOps < MaxReconcileFsOps /\ ModifyFile(p)
    \/ \E p \in ReconcileFiles : fsOps < MaxReconcileFsOps /\ DeleteFile(p)

SpecReconcile == InitReconcile /\ [][NextReconcile]_vars

\* what the catalog holds for every path, and the counts of the pass
ReconcileContent(rec) ==
    [ rows |-> { [ file_path |-> r.file_path, file_size |-> r.file_size,
                   file_hash |-> r.file_hash, created_at |-> r.created_at,
                   modified_at |-> r.modified_at, last_accessed |-> r.last_accessed,
                   is_active |-> r.is_active, scan_count |-> r.scan_count ] :
                 r \in rec.files },
      files_added |-> rec.files_added,
      files_updated |-> rec.files_updated ]

\* C26: in every catalog and tree, reconciling the list of the scan in any
\* two orders leaves the same content for every path (size, hash,
\* timestamps, active flag, scan_count) and the same added and updated counts.
C26_OrderIndependent ==
    \A o1, o2 \in Orders(ScanDirectory(fs, Projects[1].base_path, hash_files)) :
        ReconcileContent(Reconcile(ReconcileStart(files, next_file_id), 1, o1)) =
        ReconcileContent(Reconcile(ReconcileStart(files, next_file_id), 1, o2))

\* a pass over at least two descriptors that added a row and updated another
C26_Witness ==
    /\ lastResult.op = "reconcile"
    /\ Len(lastResult.scan_results) >= 2
    /\ lastResult.files_added >= 1
    /\ lastResult.files_updated >= 1

-----------------------------------------------------------------------------
(* SpecReactivate: scans of a project whose tree was cataloged by a first    *)
(* full scan, while files vanish and come back                               *)

ReactivateFiles == {F_c, F_n}

\* the catalog and the session a first full scan of the tree leaves
InitReactivate ==
    /\ \E S \in (SUBSET ReactivateFiles) \ {{}} : fs = [p \in S |-> FreshFile]
    /\ clock = 1
    /\ hash_files = TRUE
    /\ \E order \in Orders(ScanDirectory(fs, Projects[1].base_path, hash_files)) :
          LET rec == Reconcile(ReconcileStart({}, 1), 1, order)
          IN  /\ files = rec.files
              /\ next_file_id = rec.next_file_id
              /\ scan_history = RecordScanSession(<<>>,
                    [ project_id |-> 1, scan_type |-> "full",
                      start_time |-> 0, end_time |-> 1,
                      files_scanned |-> Len(order),
                      files_added |-> rec.files_added,
                      files_updated |-> rec.files_updated,
                      files_removed |-> 0,
                      errors_encountered |-> 0, scan_status |-> "completed" ])
    /\ file_metadata = {}
    /\ next_metadata_id = 1
    /\ aec_file_metadata = {}
    /\ next_aec_id = 1
    /\ attempts = 0
    /\ calls = NoCalls
    /\ fsOps = 0
    /\ lastResult = NoResult
    /\ workers = NoWorkers
    /\ scanOut = NoScannerRun
    /\ connPool = NoPool

NextReactivate ==
    \/ \E scan_type \in ScanTypes : ScanProject(1, scan_type)
    \/ \E p \in ReactivateFiles : fsOps < MaxReactivateFsOps /\ CreateFile(p)
    \/ \E p \in ReactivateFiles : fsOps < MaxReactivateFsOps /\ DeleteFile(p)

SpecReactivate == InitReactivate /\ [][NextReactivate]_vars

\* the descriptors the scan_project call of the step reconciles
ObservedByStep ==
    ScanResults(fs, files, scan_history, 1, ResolveProjectPath(files, 1).path,
                lastResult'.scan_type, hash_files)

\* C30: when a scan that completes observes a path whose row is inactive, the
\* row keeps its id, becomes active with scan_count one higher, no second
\* row of the path appears, and the scan counts as updated every observed
\* path that had a row and as added every observed path that had none.
C30_ReappearedFileReactivated ==
    [][ ( /\ attempts' = attempts + 1
          /\ lastResult'.success )
        => \A r \in files :
              (~r.is_active /\ r.file_path \in Paths(ObservedByStep)) =>
                 /\ \E n \in files' : /\ n.id = r.id
                                       /\ n.is_active
                                       /\ n.scan_count = r.scan_count + 1
                 /\ Cardinality(GetFileByPath(files', r.file_path)) = 1
                 /\ lastResult'.files_updated =
                       Cardinality({ fi \in ObservedByStep :
                                       GetFileByPath(files, fi.file_path) # {} })
                 /\ lastResult'.files_added =
                       Cardinality({ fi \in ObservedByStep :
                                       GetFileByPath(files, fi.file_path) = {} }) ]_vars

\* a scan has just reactivated a row: the session before it set a row
\* inactive, and a row seen twice carries a modification time later than
\* that session
C30_Witness ==
    /\ lastResult.op = "scan"
    /\ lastResult.success
    /\ lastResult.files_updated >= 1
    /\ lastResult.files_added = 0
    /\ Len(scan_history) >= 3
    /\ scan_history[Len(scan_history) - 1].files_removed = 1
    /\ \E r \in files : /\ r.is_active
                         /\ r.scan_count = 2
                         /\ r.modified_at > scan_history[Len(scan_history) - 1].end_time

-----------------------------------------------------------------------------
(* SpecCleanup: files of two projects in one catalog, metadata extraction    *)
(* and cleanup_orphaned_records                                              *)

InitCleanup ==
    /\ fs = [p \in CatalogFiles |-> FreshFile]
    /\ clock = 0
    /\ hash_files = TRUE
    /\ EmptyCatalog
    /\ attempts = 0
    /\ calls = NoCalls
    /\ fsOps = 0
    /\ lastResult = NoResult
    /\ workers = NoWorkers
    /\ scanOut = NoScannerRun
    /\ connPool = NoPool

\* DatabaseManager.insert_file_record(file_data) for a scanned file of the
\* project, with no other writer in between
RunInsertFileRecord(project_id, p) ==
    /\ calls.upserts < MaxUpserts
    /\ calls' = [calls EXCEPT !.upserts = @ + 1]
    /\ p \in DOMAIN fs
    /\ \E fi \in ProcessFile(fs, p, hash_files) :
          LET ins == InsertFileRecord([files |-> files, next_file_id |-> next_file_id],
                                      FileData(project_id, fi))
          IN  /\ files' = ins.files
              /\ next_file_id' = ins.next_file_id
              /\ lastResult' = [ op |-> "insert_file_record", project_id |-> project_id,
                                 file_id |-> ins.file_id ]
    /\ UNCHANGED <<fs, clock, hash_files, file_metadata, next_metadata_id,
                   aec_file_metadata, next_aec_id, scan_history, attempts, fsOps,
                   workers, scanOut, connPool>>

\* DELETE FROM <table> WHERE file_id NOT IN
\*   (SELECT id FROM files WHERE project_id = ?)
DeleteNotInProject(table, rows, project_id) ==
    { m \in table : m.file_id \in { r.id : r \in { x \in rows : x.project_id = project_id } } }

\* cleanup_orphaned_records(project_id): the two DELETE statements and the
\* commit; records_cleaned is the sum of the row counts
CleanupOrphanedRecords(project_id) ==
    /\ file_metadata' = DeleteNotInProject(file_metadata, files, project_id)
    /\ aec_file_metadata' = DeleteNotInProject(aec_file_metadata, files, project_id)
    /\ lastResult' = [ op |-> "cleanup", project_id |-> project_id, success |-> TRUE,
                       records_cleaned |->
                           Cardinality(file_metadata \ file_metadata')
                           + Cardinality(aec_file_metadata \ aec_file_metadata') ]
    /\ UNCHANGED <<fs, clock, hash_files, files, next_file_id, next_metadata_id,
                   next_aec_id, scan_history, attempts, calls, fsOps, workers,
                   scanOut, connPool>>

NextCleanup ==
    \/ \E project_id \in DOMAIN Projects, p \in CatalogFiles :
          RunInsertFileRecord(project_id, p)
    \/ \E project_id \in DOMAIN Projects, force_refresh \in BOOLEAN :
          ExtractAllMetadata(project_id, force_refresh, NoFault)
    \/ \E project_id \in DOMAIN Projects : CleanupOrphanedRecords(project_id)

SpecCleanup == InitCleanup /\ [][NextCleanup]_vars

\* C27: a call of cleanup_orphaned_records leaves in file_metadata and in
\* aec_file_metadata every record whose file row exists, whatever project
\* the file belongs to.
C27_CleanupKeepsMetadataOfFiles ==
    [][ lastResult'.op = "cleanup" =>
          /\ \A m \in file_metadata :
                (\E r \in files : r.id = m.file_id) => m \in file_metadata'
          /\ \A m \in aec_file_metadata :
                (\E r \in files : r.id = m.file_id) => m \in aec_file_metadata' ]_vars

-----------------------------------------------------------------------------
(* SpecConcurrent: two threads run full scans of project 1 on one catalog;   *)
(* the statements of the reconciliation loop of the two scans interleave     *)

ScanThreads == {1, 2}

InitConcurrent ==
    /\ \E tree \in (SUBSET CatalogFiles) \ {{}} : fs = [p \in tree |-> FreshFile]
    /\ clock = 0
    /\ hash_files = TRUE
    /\ EmptyCatalog
    /\ attempts = 0
    /\ calls = NoCalls
    /\ fsOps = 0
    /\ lastResult = NoResult
    /\ workers = [c \in ScanThreads |-> Idle]
    /\ scanOut = NoScannerRun
    /\ connPool = NoPool

\* scan_project, 'if file_id:' after insert_file_record: what the file adds
\* to files_added and files_updated
ClassifiedAlwaysUpdated(file_id, existing_file) ==
    [ files_added |-> 0,
      files_updated |-> IF file_id # 0 THEN 1 ELSE 0 ]

Classified(file_id, existing_file) ==
    [ files_added |-> IF file_id # 0 /\ ~existing_file THEN 1 ELSE 0,
      files_updated |-> IF file_id # 0 /\ existing_file THEN 1 ELSE 0 ]

ConcurrentFrame ==
    UNCHANGED <<fs, hash_files, file_metadata, next_metadata_id, aec_file_metadata,
                next_aec_id, calls, fsOps, scanOut, connPool>>

\* scan_project(1, "full") up to the loop over scan_results: the project path
\* is resolved and exists, the scanner returns its list
BeginConcurrentScan(c) ==
    /\ attempts < MaxConcurrentScans
    /\ workers[c].pc = "idle"
    /\ attempts' = attempts + 1
    /\ LET res == ResolveProjectPath(files, 1)
       IN  /\ res.outcome = "ok"
           /\ PathExists(fs, res.path)
           /\ \E order \in Orders(ScanDirectory(fs, res.path, hash_files)) :
                 workers' = [workers EXCEPT ![c] =
                               [ pc |-> "loop", start_time |-> clock,
                                 scan_results |-> order, todo |-> order,
                                 files_added |-> 0, files_updated |-> 0 ]]
    /\ lastResult' = [op |-> "begin_scan", thread |-> c]
    /\ UNCHANGED <<clock, files, next_file_id, scan_history>>
    /\ ConcurrentFrame

\* existing_file = self.database.get_file_by_path(file_info.file_path)
LookupFile(c) ==
    /\ workers[c].pc = "loop"
    /\ workers[c].todo # <<>>
    /\ workers' = [workers EXCEPT ![c] =
                     [ pc |-> "looked",
                       existing_file |->
                           GetFileByPath(files, Head(workers[c].todo).file_path) # {} ]
                     @@ workers[c]]
    /\ lastResult' = [op |-> "get_file_by_path", thread |-> c]
    /\ UNCHANGED <<clock, files, next_file_id, scan_history, attempts>>
    /\ ConcurrentFrame

\* insert_file_record, the SELECT
SelectFile(c) ==
    /\ workers[c].pc = "looked"
    /\ workers' = [workers EXCEPT ![c] =
                     [ pc |-> "selected",
                       existing |-> SelectFileId(files, Head(workers[c].todo).file_path) ]
                     @@ workers[c]]
    /\ lastResult' = [op |-> "select", thread |-> c]
    /\ UNCHANGED <<clock, files, next_file_id, scan_history, attempts>>
    /\ ConcurrentFrame

\* insert_file_record, the UPDATE or the INSERT and the commit, then the
\* counting of the file and the next turn of the loop
WriteFile(c) ==
    /\ workers[c].pc = "selected"
    /\ LET w == WriteFileRecord([files |-> files, next_file_id |-> next_file_id],
                                workers[c].existing,
                                FileData(1, Head(workers[c].todo)))
           cl == Classified(w.file_id, workers[c].existing_file)
       IN  /\ files' = w.files
           /\ next_file_id' = w.next_file_id
           /\ workers' = [workers EXCEPT ![c] =
                 [ pc |-> "loop", start_time |-> workers[c].start_time,
                   scan_results |-> workers[c].scan_results,
                   todo |-> Tail(workers[c].todo),
                   files_added |-> workers[c].files_added + cl.files_added,
                   files_updated |-> workers[c].files_updated + cl.files_updated ]]
           /\ lastResult' = [op |-> "insert_file_record", thread |-> c,
                             file_id |-> w.file_id]
    /\ UNCHANGED <<clock, scan_history, attempts>>
    /\ ConcurrentFrame

\* after the loop: removal detection, the session record, the result
FinishConcurrentScan(c) ==
    /\ workers[c].pc = "loop"
    /\ workers[c].todo = <<>>
    /\ clock' = clock + 1
    /\ LET results == { workers[c].scan_results[i] : i \in DOMAIN workers[c].scan_results }
           det == DetectRemovedFiles(files, fs, 1, results)
       IN  /\ files' = det.files
           /\ scan_history' = RecordScanSession(scan_history,
                 [ project_id |-> 1, scan_type |-> "full",
                   start_time |-> workers[c].start_time, end_time |-> clock',
                   files_scanned |-> Len(workers[c].scan_results),
                   files_added |-> workers[c].files_added,
                   files_updated |-> workers[c].files_updated,
                   files_removed |-> det.removed_count,
                   errors_encountered |-> 0, scan_status |-> "completed" ])
           /\ lastResult' = ScanResult("sync", 1, "full", TRUE, TRUE, Len(scan_history'),
                                       Len(workers[c].scan_results),
                                       workers[c].files_added, workers[c].files_updated)
    /\ workers' = [workers EXCEPT ![c] = Idle]
    /\ UNCHANGED <<next_file_id, attempts>>
    /\ ConcurrentFrame

NextConcurrent ==
    \/ \E c \in ScanThreads : BeginConcurrentScan(c)
    \/ \E c \in ScanThreads : LookupFile(c)
    \/ \E c \in ScanThreads : SelectFile(c)
    \/ \E c \in ScanThreads : WriteFile(c)
    \/ \E c \in ScanThreads : FinishConcurrentScan(c)

SpecConcurrent == InitConcurrent /\ [][NextConcurrent]_vars

\* C21: every completed scan accounts for every descriptor the scanner
\* returned: files_scanned = files_added + files_updated +
\* errors_encountered in its session
C21_EveryDescriptorAccounted ==
    \A i \in 1..Len(scan_history) :
        scan_history[i].scan_status \in {"completed", "completed_with_errors"} =>
            scan_history[i].files_scanned =
                scan_history[i].files_added + scan_history[i].files_updated
                    + scan_history[i].errors_encountered

RECURSIVE SumFilesAdded(_, _)
SumFilesAdded(history, n) ==
    IF n = 0 THEN 0 ELSE history[n].files_added + SumFilesAdded(history, n - 1)

\* C23: a scan whose lookup of a file found no row counts the file as added
\* when its insert_file_record returns an id, also when the write was the
\* update of a row that another scan had inserted in between and no row was
\* created: files_added over the two sessions can exceed the rows created
C23_BothClassifyAsNew ==
    [][ \A c \in ScanThreads :
          ( /\ workers[c].pc = "selected"
            /\ workers'[c].pc = "loop"
            /\ ~workers[c].existing_file
            /\ workers[c].existing # {} )
          => ( /\ workers'[c].files_added = workers[c].files_added + 1
               /\ Cardinality(files') = Cardinality(files) ) ]_vars

C23_Witness ==
    /\ Len(scan_history) = 2
    /\ \A c \in ScanThreads : workers[c].pc = "idle"
    /\ scan_history[1].start_time = scan_history[2].start_time
    /\ SumFilesAdded(scan_history, 2) > Cardinality(files)

-----------------------------------------------------------------------------
(* SpecStop: scans of project 1 and of project 2 run on the one              *)
(* FileSystemScanner of the orchestrator, file by file, while files change   *)
(* and stop_scanning is called                                               *)

F_q == <<N_q, N_a_txt>>

StopScanTypes == {"full", "incremental"}

\* FileSystemScanner.__init__, "Progress tracking"
NewScanner ==
    [ scan_progress |-> 0, total_files |-> 0, progress_callback |-> 0,
      stop_scanning |-> FALSE ]

InitStop ==
    /\ \E tree \in (SUBSET CatalogFiles) \ {{}} :
          fs = [p \in tree \cup {F_q} |-> FreshFile]
    /\ clock = 0
    /\ hash_files = TRUE
    /\ EmptyCatalog
    /\ attempts = 0
    /\ calls = [stops |-> 0]
    /\ fsOps = 0
    /\ lastResult = NoResult
    /\ workers = [c \in ScanThreads |-> Idle]
    /\ scanOut = NewScanner
    /\ connPool = NoPool

StopFrame ==
    UNCHANGED <<hash_files, file_metadata, next_metadata_id, aec_file_metadata,
                next_aec_id, connPool>>

\* FileSystemScanner._count_files(root_path, recursive=True): rglob('*') and
\* _should_exclude_file, whatever the directories on the way are
CountFiles(fsys, root_path) ==
    Cardinality({ p \in DOMAIN fsys : IsUnder(p, root_path) /\ ~ShouldExcludeFile(p) })

\* the files the walk of the thread has not collected yet
Uncollected(c) ==
    Paths(ScanDirectory(fs, workers[c].project_path, hash_files)) \ workers[c].collected

\* scan_project up to the first lines of scan_directory: the callback and the
\* stop flag of the scanner are set, the files are counted when there is a
\* callback
EnterScanDirectory(c, project_id, scan_type, project_path, with_callback) ==
    /\ workers' = [workers EXCEPT ![c] =
          [ pc |-> "scanning", project_id |-> project_id, scan_type |-> scan_type,
            project_path |-> project_path, start_time |-> clock,
            last_scan_time |-> LastScanTime(scan_history, project_id),
            own_callback |-> with_callback,
            own_total |-> CountFiles(fs, project_path),
            uninterrupted |-> Paths(ScanDirectory(fs, project_path, hash_files)),
            collected |-> {}, files_info |-> {}, stop_requested |-> FALSE ]]
    /\ scanOut' = [ progress_callback |-> IF with_callback THEN c ELSE 0,
                    stop_scanning |-> FALSE,
                    total_files |-> IF with_callback THEN CountFiles(fs, project_path)
                                    ELSE scanOut.total_files,
                    scan_progress |-> IF with_callback THEN 0 ELSE scanOut.scan_progress ]
    /\ lastResult' = [op |-> "scan_directory", thread |-> c]
    /\ UNCHANGED <<clock, files, next_file_id, scan_history>>

\* thread c calls scan_project(c, scan_type, progress_callback)
StartScan(c, scan_type, with_callback) ==
    /\ attempts < MaxStopScans
    /\ workers[c].pc = "idle"
    /\ attempts' = attempts + 1
    /\ LET res == ResolveProjectPath(files, c)
       IN  CASE res.outcome = "exception" ->
                    /\ clock' = clock + 1
                    /\ ScanFailsRecorded(c, scan_type)
                    /\ UNCHANGED <<workers, scanOut>>
             [] res.outcome = "ok" /\ ~PathExists(fs, res.path) ->
                    /\ ScanReturnsEarly("sync", c, scan_type)
                    /\ UNCHANGED <<clock, workers, scanOut>>
             [] res.outcome = "ok" /\ PathExists(fs, res.path) ->
                    EnterScanDirectory(c, c, scan_type, res.path, with_callback)
    /\ UNCHANGED <<fs, calls, fsOps>>
    /\ StopFrame

\* _scan_recursive: the stop flag is clear, one more file is processed and
\* its FileInfo collected; _update_progress
CollectFile(c, p) ==
    /\ workers[c].pc = "scanning"
    /\ ~scanOut.stop_scanning
    /\ p \in Uncollected(c)
    /\ workers' = [workers EXCEPT ![c].collected = @ \cup {p},
                                  ![c].files_info = @ \cup ProcessFile(fs, p, hash_files)]
    /\ scanOut' = [scanOut EXCEPT !.scan_progress = @ + 1]
    /\ lastResult' =
          IF scanOut.progress_callback # 0 /\ scanOut.total_files > 0
          THEN [ op |-> "progress", thread |-> c,
                 callback |-> scanOut.progress_callback,
                 current |-> scanOut'.scan_progress, total |-> scanOut.total_files ]
          ELSE [ op |-> "collect", thread |-> c ]
    /\ UNCHANGED <<fs, clock, files, next_file_id, scan_history, attempts, calls, fsOps>>
    /\ StopFrame

\* FileSystemScanner.stop_scanning(), called to stop the scan of thread c
StopScanning(c) ==
    /\ calls.stops < MaxStops
    /\ workers[c].pc = "scanning"
    /\ calls' = [calls EXCEPT !.stops = @ + 1]
    /\ scanOut' = [scanOut EXCEPT !.stop_scanning = TRUE]
    /\ workers' = [workers EXCEPT ![c].stop_requested = TRUE]
    /\ lastResult' = [op |-> "stop_scanning", thread |-> c]
    /\ UNCHANGED <<fs, clock, files, next_file_id, scan_history, attempts, fsOps>>
    /\ StopFrame

\* what scan_directory or incremental_scan hands to scan_project
Returned(c) ==
    IF workers[c].scan_type = "incremental"
    THEN { fi \in workers[c].files_info :
             \/ fi.modified_time > workers[c].last_scan_time
             \/ fi.created_time > workers[c].last_scan_time }
    ELSE workers[c].files_info

\* the walk ends, because every file is collected or because the stop flag
\* is set; scan_project reconciles the list, detects removed files and
\* records the session
FinishScan(c) ==
    /\ workers[c].pc = "scanning"
    /\ scanOut.stop_scanning \/ Uncollected(c) = {}
    /\ clock' = clock + 1
    /\ \E order \in Orders(Returned(c)) :
          LET project_id == workers[c].project_id
              rec == Reconcile([files |-> files, next_file_id |-> next_file_id,
                                files_added |-> 0, files_updated |-> 0],
                               project_id, order)
              det == DetectRemovedFiles(rec.files, fs, project_id, Returned(c))
          IN  /\ files' = det.files
              /\ next_file_id' = rec.next_file_id
              /\ scan_history' = RecordScanSession(scan_history,
                    [ project_id |-> project_id, scan_type |-> workers[c].scan_type,
                      start_time |-> workers[c].start_time, end_time |-> clock',
                      files_scanned |-> Len(order),
                      files_added |-> rec.files_added,
                      files_updated |-> rec.files_updated,
                      files_removed |-> det.removed_count,
                      errors_encountered |-> 0, scan_status |-> "completed" ])
              /\ lastResult' =
                    [ thread |-> c,
                      cancelled |-> scanOut.stop_scanning /\ Uncollected(c) # {},
                      stop_requested |-> workers[c].stop_requested,
                      returned |-> Paths(Returned(c)),
                      uninterrupted |-> workers[c].uninterrupted ]
                    @@ ScanResult("sync", project_id, workers[c].scan_type, TRUE, TRUE,
                                  Len(scan_history'), Len(order),
                                  rec.files_added, rec.files_updated)
    /\ workers' = [workers EXCEPT ![c] = Idle]
    /\ UNCHANGED <<fs, attempts, calls, fsOps, scanOut>>
    /\ StopFrame

\* full scans of the two projects at the same time, with and without a
\* progress callback, and stop requests
NextStop ==
    \/ \E c \in ScanThreads, with_callback \in BOOLEAN : StartScan(c, "full", with_callback)
    \/ \E c \in ScanThreads, p \in CatalogFiles \cup {F_q} : CollectFile(c, p)
    \/ \E c \in ScanThreads : StopScanning(c)
    \/ \E c \in ScanThreads : FinishScan(c)

SpecStop == InitStop /\ [][NextStop]_vars

\* full scans of project 1, one after the other, stop requests, and files of
\* project 1 that are deleted
NextCancel ==
    \/ StartScan(1, "full", FALSE)
    \/ \E p \in CatalogFiles : CollectFile(1, p)
    \/ StopScanning(1)
    \/ FinishScan(1)
    \/ \E p \in CatalogFiles : fsOps < MaxStopFsOps /\ DeleteFile(p)

SpecCancel == InitStop /\ [][NextCancel]_vars

\* full and incremental scans of project 1, one after the other, and files
\* of project 1 that are written while a scan runs or between two scans
NextDrift ==
    \/ \E scan_type \in StopScanTypes : StartScan(1, scan_type, FALSE)
    \/ \E p \in CatalogFiles : CollectFile(1, p)
    \/ FinishScan(1)
    \/ \E p \in CatalogFiles : fsOps < MaxStopFsOps /\ ModifyFile(p)

SpecDrift == InitStop /\ [][NextDrift]_vars

\* the step ends a scan of thread c that a stop request cut short
CancelledScanEnds(c) ==
    /\ workers[c].pc = "scanning"
    /\ workers'[c].pc = "idle"
    /\ lastResult'.cancelled

\* C24: a stop request during a scan makes the scanner return a subset of
\* what the uninterrupted scan would return; the reconciliation that follows
\* leaves every catalog row outside that subset unchanged, and no file that
\* still exists on disk is marked inactive by the cancelled scan
C24_CancelledScanLeavesRest ==
    [][ \A c \in ScanThreads : CancelledScanEnds(c) =>
          /\ lastResult'.returned \subseteq workers[c].uninterrupted
          /\ \A r \in files : r.file_path \notin lastResult'.returned => r \in files'
          /\ \A r \in files : r.is_active /\ PathExists(fs, r.file_path) =>
                 \E n \in files' : n.id = r.id /\ n.is_active ]_vars

\* C24, amended: a stop request during a scan makes the scanner return a
\* subset of what the uninterrupted scan would return; the reconciliation
\* that follows leaves every catalog row outside that subset unchanged,
\* except that an active row of the scanned project whose file is no longer
\* on disk is set inactive; no file that still exists on disk is marked
\* inactive by the cancelled scan
C24_CancelledScanLeavesRestOnDisk ==
    [][ \A c \in ScanThreads : CancelledScanEnds(c) =>
          /\ lastResult'.returned \subseteq workers[c].uninterrupted
          /\ \A r \in files : r.file_path \notin lastResult'.returned =>
                 \/ r \in files'
                 \/ /\ r.is_active
                    /\ r.project_id = workers[c].project_id
                    /\ ~PathExists(fs, r.file_path)
                    /\ [r EXCEPT !.is_active = FALSE] \in files'
                    /\ Cardinality(files') = Cardinality(files)
          /\ \A r \in files : r.is_active /\ PathExists(fs, r.file_path) =>
                 \E n \in files' : n.id = r.id /\ n.is_active ]_vars

\* a cancelled scan has returned some files of the project and left out a
\* cataloged file that is on disk, whose row is as the scan before wrote it
C24_Witness ==
    /\ lastResult.op = "scan"
    /\ lastResult.success
    /\ lastResult.cancelled
    /\ lastResult.returned # {}
    /\ \E r \in files :
          /\ r.project_id = lastResult.project_id
          /\ r.file_path \notin lastResult.returned
          /\ PathExists(fs, r.file_path)
          /\ r.is_active
          /\ r.scan_count = 1
    /\ \E r \in files : r.file_path \in lastResult.returned /\ r.scan_count = 2

\* C25: two scans of different projects that run at the same time on one
\* orchestrator share no mutable state but the connection pool: a progress
\* callback is called by its own scan only, with the counts of that scan,
\* and a scan that nobody asked to stop returns all the files of its tree
C25_ScansShareNothing ==
    /\ lastResult.op = "progress" =>
          /\ lastResult.callback = lastResult.thread
          /\ lastResult.current = Cardinality(workers[lastResult.thread].collected)
          /\ lastResult.total = workers[lastResult.thread].own_total
    /\ ( /\ lastResult.op = "scan"
         /\ lastResult.success
         /\ ~lastResult.stop_requested )
       => lastResult.returned = lastResult.uninterrupted

\* the latest stat time of a file on disk
LastChange(fsys) ==
    LET times == { fsys[p].mtime : p \in DOMAIN fsys } \cup { fsys[p].ctime : p \in DOMAIN fsys }
    IN  CHOOSE t \in times : \A u \in times : u <= t

\* C28: once the files have stopped changing, a completed full scan followed
\* by completed incremental scans leaves the catalog with the current size
\* and modification time of every non-excluded file, also of a file that
\* was written while the full scan was running
C28_IncrementalCatchesUp ==
    LET n == Len(scan_history)
        completed(i, scan_type) ==
            /\ scan_history[i].project_id = 1
            /\ scan_history[i].scan_type = scan_type
            /\ scan_history[i].scan_status = "completed"
    IN  ( /\ \A c \in ScanThreads : workers[c].pc = "idle"
          /\ n >= 2
          /\ completed(n, "incremental")
          /\ scan_history[n].start_time >= LastChange(fs)
          /\ \E i \in 1..(n - 1) :
                /\ completed(i, "full")
                /\ \A j \in (i + 1)..n : completed(j, "incremental") )
        => \A p \in NonExcludedFilesUnder(fs, Projects[1].base_path) :
              \E r \in files : /\ r.file_path = p
                               /\ r.is_active
                               /\ r.file_size = fs[p].size
                               /\ r.modified_at = fs[p].mtime

-----------------------------------------------------------------------------
(* SpecCheckout: the 'with get_connection()' blocks that the operations of   *)
(* the orchestrator and of the catalog enter, in the order of the code, run  *)
(* by two threads on a pool of MaxPoolConnections connections                *)

\* the checkouts made inside the 'with get_connection()' block of a call
\* site, by the methods the block calls: one inside insert_file_record
InsideBlockLookingUp(site) ==
    IF site = "insert_file_record" THEN <<"get_file_by_path">> ELSE <<>>

\* the checkouts made inside the 'with get_connection()' block of a call
\* site, by the methods the block calls: the blocks run statements on their
\* own cursor, and _insert_aec_metadata takes the cursor of its caller
InsideBlock(site) == <<>>

\* one 'with self.get_connection() as conn:' block
RECURSIVE Blocks(_)
Block(site) ==
    <<[kind |-> "get", site |-> site]>> \o Blocks(InsideBlock(site))
                                       \o <<[kind |-> "put", site |-> site]>>

Blocks(sites) ==
    IF sites = <<>> THEN <<>> ELSE Block(Head(sites)) \o Blocks(Tail(sites))

\* _detect_removed_files
DetectRemovedFilesBlocks == <<"get_files_by_project", "_detect_removed_files">>

\* the loop of scan_project over n scan results
RECURSIVE LoopBlocks(_)
LoopBlocks(n) ==
    IF n = 0 THEN <<>>
    ELSE <<"get_file_by_path", "_get_or_create_directory_id", "insert_file_record">>
         \o LoopBlocks(n - 1)

\* scan_project: the project row is read when the project has no file row,
\* the last scan time when the scan is incremental
ScanProjectBlocks(has_rows, scan_type, n) ==
    <<"get_files_by_project">>
    \o (IF has_rows THEN <<>> ELSE <<"scan_project.projects">>)
    \o (IF scan_type = "incremental" THEN <<"scan_project.scan_history">> ELSE <<>>)
    \o LoopBlocks(n)
    \o DetectRemovedFilesBlocks
    \o <<"record_scan_session">>

\* the call sites of the operations a thread may run
Operations ==
    { [name |-> "scan_project", sites |-> ScanProjectBlocks(has_rows, scan_type, n)] :
          has_rows \in BOOLEAN, scan_type \in StopScanTypes, n \in 0..MaxLoopFiles }
    \cup { [name |-> "_detect_removed_files", sites |-> DetectRemovedFilesBlocks],
           [name |-> "update_file_metadata", sites |-> <<"update_file_metadata">>] }

InitCheckout ==
    /\ fs = [p \in CatalogFiles |-> FreshFile]
    /\ clock = 0
    /\ hash_files = TRUE
    /\ EmptyCatalog
    /\ attempts = 0
    /\ calls = NoCalls
    /\ fsOps = 0
    /\ lastResult = NoResult
    /\ workers = [c \in ScanThreads |-> Idle]
    /\ scanOut = NoScannerRun
    /\ connPool = [out |-> 0]

CheckoutFrame ==
    UNCHANGED <<fs, clock, hash_files, catalogVars, calls, fsOps, scanOut>>

\* a thread calls an operation
BeginOperation(c, operation) ==
    /\ attempts < MaxOperations
    /\ workers[c].pc = "idle"
    /\ attempts' = attempts + 1
    /\ workers' = [workers EXCEPT ![c] =
                     [ pc |-> "run", name |-> operation.name,
                       todo |-> Blocks(operation.sites), held |-> 0 ]]
    /\ lastResult' = [op |-> "call", thread |-> c, name |-> operation.name]
    /\ UNCHANGED connPool
    /\ CheckoutFrame

\* ConnectionPool.get_connection up to the yield: a pooled connection, or a
\* new one while fewer than max_connections are open; the thread waits
\* while every connection is out
EnterBlock(c) ==
    /\ workers[c].pc = "run"
    /\ workers[c].todo # <<>>
    /\ Head(workers[c].todo).kind = "get"
    /\ connPool.out < MaxPoolConnections
    /\ connPool' = [out |-> connPool.out + 1]
    /\ workers' = [workers EXCEPT ![c].todo = Tail(@), ![c].held = @ + 1]
    /\ lastResult' = [ op |-> "get_connection", thread |-> c,
                       site |-> Head(workers[c].todo).site,
                       holding |-> workers[c].held ]
    /\ UNCHANGED attempts
    /\ CheckoutFrame

\* the end of the block: commit and put_nowait
LeaveBlock(c) ==
    /\ workers[c].pc = "run"
    /\ workers[c].todo # <<>>
    /\ Head(workers[c].todo).kind = "put"
    /\ connPool' = [out |-> connPool.out - 1]
    /\ workers' = [workers EXCEPT ![c].todo = Tail(@), ![c].held = @ - 1]
    /\ lastResult' = [ op |-> "put_nowait", thread |-> c,
                       site |-> Head(workers[c].todo).site ]
    /\ UNCHANGED attempts
    /\ CheckoutFrame

\* the operation returns
EndOperation(c) ==
    /\ workers[c].pc = "run"
    /\ workers[c].todo = <<>>
    /\ workers' = [workers EXCEPT ![c] = Idle]
    /\ lastResult' = [op |-> "return", thread |-> c, name |-> workers[c].name]
    /\ UNCHANGED <<attempts, connPool>>
    /\ CheckoutFrame

NextCheckout ==
    \/ \E c \in ScanThreads, operation \in Operations : BeginOperation(c, operation)
    \/ \E c \in ScanThreads : EnterBlock(c)
    \/ \E c \in ScanThreads : LeaveBlock(c)
    \/ \E c \in ScanThreads : EndOperation(c)

SpecCheckout == InitCheckout /\ [][NextCheckout]_vars

\* a thread inside an operation is scheduled again and again
SpecCheckoutFair ==
    /\ SpecCheckout
    /\ \A c \in ScanThreads : WF_vars(EnterBlock(c) \/ LeaveBlock(c) \/ EndOperation(c))

=============================================================================
